---- MODULE Spec2Model ----
(***************************************************************************)
(* A model of the teacher review bot of src/main.py.py: the vote ledger,   *)
(* the rate limiter, the per-user session and conversation, submission to  *)
(* the moderator, and the moderator's approve / reject / ban actions.      *)
(*                                                                         *)
(* Texts are sequences of one-character strings, so that strip(), len(),   *)
(* lower(), re.findall(r"\w+") and html.escape() are computed, not assumed.*)
(* User ids, message ids and uuid prefixes are small integers.             *)
(***************************************************************************)
EXTENDS Integers, Sequences, FiniteSets, Bags, TLC

(***************************************************************************)
(* Bounds of the model.                                                    *)
(***************************************************************************)
MaxClock == 3
MaxIds == 2
MaxConvIds == 2
MaxPosts == 3
MaxBatch == 6
MaxVoted == 1
MaxCalls == 2

(***************************************************************************)
(* Program constants.                                                      *)
(***************************************************************************)
\* ADMIN_ID is 5113670239 in the source; the model uses a small id.
ADMIN_ID == 1
MAX_REVIEWS_PER_HOUR == 5
MAX_PROFANITY_STRIKES == 3
MIN_NAME_LEN == 3
MIN_REVIEW_LEN == 30
\* timedelta(hours=1), in ticks of the model clock
HOUR == 2

Student == ADMIN_ID + 1
Voter3 == ADMIN_ID + 2
Users == {ADMIN_ID, Student}
Voters == {ADMIN_ID, Student, Voter3}

None == "None"

(***************************************************************************)
(* Text helpers.                                                           *)
(***************************************************************************)
RECURSIVE Rep(_, _)
Rep(c, n) == IF n = 0 THEN <<>> ELSE <<c>> \o Rep(c, n - 1)

Whitespace == {" ", "\n", "\t"}

RECURSIVE LStrip(_)
LStrip(s) ==
    IF s # <<>> /\ Head(s) \in Whitespace THEN LStrip(Tail(s)) ELSE s

RECURSIVE RStrip(_)
RStrip(s) ==
    IF s # <<>> /\ s[Len(s)] \in Whitespace
    THEN RStrip(SubSeq(s, 1, Len(s) - 1))
    ELSE s

\* the text as it was sent, blanks kept
NoStrip(s) == s

\* str.strip()
Strip(s) == RStrip(LStrip(s))

Uppers ==
    <<"A", "B", "C", "D", "E", "F", "G", "H", "I", "J", "K", "L", "M",
      "N", "O", "P", "Q", "R", "S", "T", "U", "V", "W", "X", "Y", "Z">>

Lowers ==
    <<"a", "b", "c", "d", "e", "f", "g", "h", "i", "j", "k", "l", "m",
      "n", "o", "p", "q", "r", "s", "t", "u", "v", "w", "x", "y", "z">>

Digits == {"0", "1", "2", "3", "4", "5", "6", "7", "8", "9"}

LowerChar(c) ==
    IF \E i \in 1..26 : Uppers[i] = c
    THEN Lowers[CHOOSE i \in 1..26 : Uppers[i] = c]
    ELSE c

\* str.lower()
Lower(s) == [i \in 1..Len(s) |-> LowerChar(s[i])]

\* the characters the regex class \w matches
WordChars ==
    {Uppers[i] : i \in 1..26} \cup {Lowers[i] : i \in 1..26} \cup Digits \cup {"_"}

\* re.findall(r"\w+", s): the maximal runs of word characters, left to right
RECURSIVE FindWords(_, _, _)
FindWords(s, cur, acc) ==
    IF s = <<>>
    THEN IF cur = <<>> THEN acc ELSE Append(acc, cur)
    ELSE IF Head(s) \in WordChars
         THEN FindWords(Tail(s), Append(cur, Head(s)), acc)
         ELSE FindWords(Tail(s), <<>>,
                        IF cur = <<>> THEN acc ELSE Append(acc, cur))

\* the entries of PROFANITY_SET that the model's inputs use
PROFANITY_SET == { <<"i", "d", "i", "o", "t">>, <<"d", "u", "m", "b">> }

\* the filter without lower(): only lower-case spellings are found
contains_profanity_case_sensitive(text) ==
    LET ws == FindWords(text, <<>>, <<>>)
    IN  \E i \in 1..Len(ws) : ws[i] \in PROFANITY_SET

contains_profanity(text) ==
    LET ws == FindWords(Lower(text), <<>>, <<>>)
    IN  \E i \in 1..Len(ws) : ws[i] \in PROFANITY_SET

EscapeChar(c) ==
    CASE c = "&" -> <<"&", "a", "m", "p", ";">>
      [] c = "<" -> <<"&", "l", "t", ";">>
      [] c = ">" -> <<"&", "g", "t", ";">>
      [] c = "\"" -> <<"&", "q", "u", "o", "t", ";">>
      [] c = "'" -> <<"&", "#", "x", "2", "7", ";">>
      [] OTHER -> <<c>>

\* html.escape()
RECURSIVE html_escape(_)
html_escape(s) ==
    IF s = <<>> THEN <<>> ELSE EscapeChar(Head(s)) \o html_escape(Tail(s))

\* stars_str(rating): the number of filled stars
stars_str(rating) ==
    LET lo == IF rating < 5 THEN rating ELSE 5
    IN  IF lo > 0 THEN lo ELSE 0

(***************************************************************************)
(* State.                                                                  *)
(***************************************************************************)
VARIABLES
    conv,        \* ConversationHandler state of each user's chat
    sessions,    \* _sessions: uid -> Session
    nextId,      \* the next Draft id, str(uuid.uuid4())[:8]
    nextTok,     \* the next context token, str(uuid.uuid4())[:10]
    idLimit,     \* the last uuid prefix a behaviour of the model may use
    banned,      \* Database._banned_cache and the bans collection
    violations,  \* violations collection: uid -> count
    ratelimits,  \* ratelimits collection: uid -> timestamps
    contexts,    \* contexts collection: key -> data
    reviews,     \* reviews collection
    members,     \* Database._members_cache and the members collection
    posts,       \* the channel's messages; the message id is the index
    votes,       \* votes collection: message id -> {up, down, voters}
    adminMsgs,   \* the moderator chat's review messages and their keyboards
    clock,       \* datetime.now()
    update,      \* the update the last handler received: its sender and its text or data
    last,        \* the handler that ran last, its return value and its outbound calls
    submitted,   \* history: draft id -> the draft as it was in the session at submission
    rejected,    \* history: the draft ids the moderator has rejected
    voteCalls,   \* cast_vote calls in flight (interleaved specification)
    admitCalls   \* rate_limit_ok calls in flight (interleaved specification)

vars == <<conv, sessions, nextId, nextTok, idLimit, banned, violations, ratelimits, contexts,
          reviews, members, posts, votes, adminMsgs, clock, update, last, submitted, rejected,
          voteCalls, admitCalls>>

EmptyMap == [x \in {} |-> None]

\* dict[key] = value
Put(f, k, v) == [x \in DOMAIN f \cup {k} |-> IF x = k THEN v ELSE f[x]]

\* dict.pop(key, None)
Pop(f, k) == [x \in DOMAIN f \ {k} |-> f[x]]

\* dict.get(key, default)
Get(f, k, default) == IF k \in DOMAIN f THEN f[k] ELSE default

Max0(n) == IF n > 0 THEN n ELSE 0

(***************************************************************************)
(* Vote ledger: Database.cast_vote.                                        *)
(***************************************************************************)
Directions == {"up", "down"}

NewVoteDoc == [up |-> 0, down |-> 0, voters |-> EmptyMap]

\* find_one({"_id": mid}), and the fresh document when there is none
find_vote_doc(store, mid) == Get(store, mid, NewVoteDoc)

\* cast_vote without the compensating decrement of the previous bucket
cast_vote_no_decrement(doc, uid, direction) ==
    LET prev == Get(doc.voters, uid, None)
        up2 == IF direction = "up" THEN doc.up + 1 ELSE doc.up
        down2 == IF direction = "down" THEN doc.down + 1 ELSE doc.down
    IN  IF prev = direction
        THEN [changed |-> FALSE, up |-> doc.up, down |-> doc.down, write |-> FALSE,
              doc |-> doc]
        ELSE [changed |-> TRUE, up |-> up2, down |-> down2, write |-> TRUE,
              doc |-> [up |-> up2, down |-> down2,
                       voters |-> Put(doc.voters, uid, direction)]]

\* cast_vote without the early return for a repeated direction
cast_vote_no_early_return(doc, uid, direction) ==
    LET prev == Get(doc.voters, uid, None)
        up1 == IF prev = "up" THEN Max0(doc.up - 1) ELSE doc.up
        down1 == IF prev = "down" THEN Max0(doc.down - 1) ELSE doc.down
        up2 == IF direction = "up" THEN up1 + 1 ELSE up1
        down2 == IF direction = "down" THEN down1 + 1 ELSE down1
    IN  [changed |-> TRUE, up |-> up2, down |-> down2, write |-> TRUE,
         doc |-> [up |-> up2, down |-> down2,
                  voters |-> Put(doc.voters, uid, direction)]]

\* cast_vote that keeps the first choice of a voter: a second call changes nothing
cast_vote_first_choice_final(doc, uid, direction) ==
    LET prev == Get(doc.voters, uid, None)
        up2 == IF direction = "up" THEN doc.up + 1 ELSE doc.up
        down2 == IF direction = "down" THEN doc.down + 1 ELSE doc.down
    IN  IF prev # None
        THEN [changed |-> FALSE, up |-> doc.up, down |-> doc.down, write |-> FALSE,
              doc |-> doc]
        ELSE [changed |-> TRUE, up |-> up2, down |-> down2, write |-> TRUE,
              doc |-> [up |-> up2, down |-> down2,
                       voters |-> Put(doc.voters, uid, direction)]]

\* The part of cast_vote between its two awaits: from the document that was
\* read, the return value and the document to write.
cast_vote(doc, uid, direction) ==
    LET prev == Get(doc.voters, uid, None)
        up1 == IF prev = "up" THEN Max0(doc.up - 1) ELSE doc.up
        down1 == IF prev = "down" THEN Max0(doc.down - 1) ELSE doc.down
        up2 == IF direction = "up" THEN up1 + 1 ELSE up1
        down2 == IF direction = "down" THEN down1 + 1 ELSE down1
    IN  IF prev = direction
        THEN [changed |-> FALSE, up |-> doc.up, down |-> doc.down, write |-> FALSE,
              doc |-> doc]
        ELSE [changed |-> TRUE, up |-> up2, down |-> down2, write |-> TRUE,
              doc |-> [up |-> up2, down |-> down2,
                       voters |-> Put(doc.voters, uid, direction)]]

\* update_one({"_id": mid}, {"$set": {up, down, voters}}, upsert=True)
update_vote_doc(store, mid, doc) == Put(store, mid, doc)

(***************************************************************************)
(* Rate limiter: Database.rate_limit_ok.                                   *)
(***************************************************************************)
\* rate_limit_ok that records the attempt it denies
rate_limit_ok_records_denial(timestamps, now) ==
    LET cutoff == now - HOUR
        recent == SelectSeq(timestamps, LAMBDA t : t > cutoff)
    IN  IF Len(recent) >= MAX_REVIEWS_PER_HOUR
        THEN [ok |-> FALSE, write |-> TRUE, timestamps |-> Append(recent, now)]
        ELSE [ok |-> TRUE, write |-> TRUE, timestamps |-> Append(recent, now)]

\* rate_limit_ok with > for >=: one call more is let through
rate_limit_ok_off_by_one(timestamps, now) ==
    LET cutoff == now - HOUR
        recent == SelectSeq(timestamps, LAMBDA t : t > cutoff)
    IN  IF Len(recent) > MAX_REVIEWS_PER_HOUR
        THEN [ok |-> FALSE, write |-> FALSE, timestamps |-> timestamps]
        ELSE [ok |-> TRUE, write |-> TRUE, timestamps |-> Append(recent, now)]

\* rate_limit_ok that appends to the list as it was read, expired entries kept
rate_limit_ok_no_prune(timestamps, now) ==
    LET cutoff == now - HOUR
        recent == SelectSeq(timestamps, LAMBDA t : t > cutoff)
    IN  IF Len(recent) >= MAX_REVIEWS_PER_HOUR
        THEN [ok |-> FALSE, write |-> FALSE, timestamps |-> timestamps]
        ELSE [ok |-> TRUE, write |-> TRUE, timestamps |-> Append(timestamps, now)]

\* The part of rate_limit_ok between its two awaits: from the timestamps that
\* were read, the return value and the list to write.
rate_limit_ok(timestamps, now) ==
    LET cutoff == now - HOUR
        recent == SelectSeq(timestamps, LAMBDA t : t > cutoff)
    IN  IF Len(recent) >= MAX_REVIEWS_PER_HOUR
        THEN [ok |-> FALSE, write |-> FALSE, timestamps |-> timestamps]
        ELSE [ok |-> TRUE, write |-> TRUE, timestamps |-> Append(recent, now)]

\* find_one({"_id": uid_str}) and doc.get("timestamps", [])
find_timestamps(store, uid) == Get(store, uid, <<>>)

(***************************************************************************)
(* Texts of the chat: button labels, catalog keys and the sample inputs.   *)
(***************************************************************************)
BTN_WRITE == <<"W", "r", "i", "t", "e", " ", "a", " ", "R", "e", "v", "i", "e", "w">>
BTN_CANCEL == <<"C", "a", "n", "c", "e", "l">>
BTN_ADD_MORE == <<"R", "e", "v", "i", "e", "w", " ", "A", "n", "o", "t", "h", "e", "r">>
BTN_MANAGE == <<"M", "a", "n", "a", "g", "e", " ", "M", "y", " ", "D", "r", "a", "f", "t", "s">>
BTN_SUBMIT == <<"S", "u", "b", "m", "i", "t", " ", "A", "l", "l">>

StreamLaw == <<"L", "a", "w">>
StreamMed == <<"M", "e", "d">>
YearLaw == <<"Y", "e", "a", "r", " ", "1">>
YearMed == <<"Y", "e", "a", "r", " ", "2">>
SubjLaw == <<"F", "a", "m", "i", "l", "y", " ", "L", "a", "w">>
SubjMed == <<"P", "a", "t", "h", "o", "l", "o", "g", "y", " ", "I">>

\* two streams of ACADEMIC_DB, each with one year and one subject
ACADEMIC_DB ==
    [s \in {StreamLaw, StreamMed} |->
        IF s = StreamLaw
        THEN [y \in {YearLaw} |-> <<SubjLaw>>]
        ELSE [y \in {YearMed} |-> <<SubjMed>>]]

SUBJECTS_PER_PAGE == 6

Junk == <<"?", "?">>

\* reviewed-party names: one that is too short once stripped, one that is kept
NameShort == <<" ", "A", "b", " ", " ">>
NameOk == <<" ", "D", "r", ".", " ", "A", "<", "b", ">", " ">>

\* review bodies
BodyShort == <<"t", "o", "o", " ", "s", "h", "o", "r", "t">>
BodyShortProfane == <<"y", "o", "u", " ", "I", "d", "i", "o", "t">>
\* 29 characters between blanks: 33 characters before strip()
BodyPadded == <<" ", " ">> \o Rep("a", 29) \o <<" ", "\n">>
\* exactly 30 characters once stripped, with characters html.escape rewrites
BodyOk == <<" ">> \o Rep("g", 12) \o <<" ", "&", " ", "<", "b", ">", " ">> \o Rep("k", 11)
\* forbidden words inside longer words only: no \w+ run is a forbidden word
BodyOkEmbedded == Rep("x", 20) \o <<" ", "i", "d", "i", "o", "t", "s", " ", "d", "u", "m", "b", "_", "1">>
BodyProfane == Rep("x", 24) \o <<",", "D", "u", "m", "B", "!">>
BodyProfaneLong == Rep("x", 12) \o <<" ", "i", "d", "i", "o", "t", " ">> \o Rep("y", 26)

\* the values of the kb_rating buttons, and the ones the samples press
RatingButtons == 1..5
RatingInputs == {1, 5}

REJECT_CODES == {"insulting", "tooshort", "unclear", "irrelevant", "duplicate", "policy"}

\* REJECT_MSG: each code's pre-composed message, named by its distinguishing sentence
REJECT_MSG ==
    [c \in REJECT_CODES |->
        CASE c = "insulting" -> "Not Approved: aggressive or disrespectful"
          [] c = "tooshort" -> "Not Approved: a bit brief"
          [] c = "unclear" -> "Not Approved: difficult to follow"
          [] c = "irrelevant" -> "Not Approved: not about the teaching"
          [] c = "duplicate" -> "Not Approved: similar review exists"
          [] c = "policy" -> "Not Approved: community guidelines"]

(***************************************************************************)
(* Session management: Draft, Session, session().                          *)
(***************************************************************************)
NoParent == 0

\* context tokens and draft ids are both uuid prefixes, of different lengths
FirstToken == 101

\* Draft.__init__ (ts is written once and never read)
Draft(id) ==
    [id |-> id, stream |-> <<>>, year |-> <<>>, subject |-> <<>>, teacher |-> <<>>,
     rating |-> 0, content |-> <<>>, is_additional |-> FALSE,
     parent_msg_id |-> NoParent]

\* Session.__init__; draft is <<>> for None and <<d>> for a Draft
Session ==
    [draft |-> <<>>, drafts |-> <<>>, subject_page |-> 0, current_subjects |-> <<>>]

new_draft(sess, id) ==
    [sess EXCEPT !.draft = <<Draft(id)>>, !.subject_page = 0,
                 !.current_subjects = <<>>]

\* commit_draft that appends the active draft and keeps it active
commit_draft_keeps_active(sess) ==
    IF sess.draft # <<>>
    THEN [sess EXCEPT !.drafts = Append(@, sess.draft[1])]
    ELSE sess

commit_draft(sess) ==
    IF sess.draft # <<>>
    THEN [sess EXCEPT !.drafts = Append(@, sess.draft[1]), !.draft = <<>>]
    ELSE sess

\* del list[idx] / list.pop(idx), idx counted from 0
RemoveAt(seq, idx) == SubSeq(seq, 1, idx) \o SubSeq(seq, idx + 2, Len(seq))

\* delete that takes an index past the end for the last draft
delete_clamps(sess, idx) ==
    IF 0 <= idx /\ sess.drafts # <<>>
    THEN [ok |-> TRUE,
          sess |-> [sess EXCEPT !.drafts =
                       RemoveAt(@, IF idx < Len(@) THEN idx ELSE Len(@) - 1)]]
    ELSE [ok |-> FALSE, sess |-> sess]

delete(sess, idx) ==
    IF 0 <= idx /\ idx < Len(sess.drafts)
    THEN [ok |-> TRUE, sess |-> [sess EXCEPT !.drafts = RemoveAt(@, idx)]]
    ELSE [ok |-> FALSE, sess |-> sess]

\* pop_for_edit that takes an index past the end for the last draft
pop_for_edit_clamps(sess, idx) ==
    IF 0 <= idx /\ sess.drafts # <<>>
    THEN LET at == IF idx < Len(sess.drafts) THEN idx ELSE Len(sess.drafts) - 1
         IN  [ok |-> TRUE,
              sess |-> [sess EXCEPT !.draft = <<sess.drafts[at + 1]>>,
                                    !.drafts = RemoveAt(@, at)]]
    ELSE [ok |-> FALSE, sess |-> sess]

\* an edit that copies the draft and leaves it in the committed list
pop_for_edit_keeps_copy(sess, idx) ==
    IF 0 <= idx /\ idx < Len(sess.drafts)
    THEN [ok |-> TRUE,
          sess |-> [sess EXCEPT !.draft = <<sess.drafts[idx + 1]>>]]
    ELSE [ok |-> FALSE, sess |-> sess]

pop_for_edit(sess, idx) ==
    IF 0 <= idx /\ idx < Len(sess.drafts)
    THEN [ok |-> TRUE,
          sess |-> [sess EXCEPT !.draft = <<sess.drafts[idx + 1]>>,
                                !.drafts = RemoveAt(@, idx)]]
    ELSE [ok |-> FALSE, sess |-> sess]

\* session(uid): the user's Session, created when there is none
session(store, uid) == Get(store, uid, Session)

END == "END"
ST_STREAM == "ST_STREAM"
ST_YEAR == "ST_YEAR"
ST_SUBJECT == "ST_SUBJECT"
ST_TEACHER == "ST_TEACHER"
ST_RATING == "ST_RATING"
ST_CONTENT == "ST_CONTENT"
ST_BATCH == "ST_BATCH"
ST_MANAGE == "ST_MANAGE"

\* the states whose handlers are MessageHandler(filters.TEXT & ~filters.COMMAND)
TextStates == {ST_STREAM, ST_YEAR, ST_TEACHER, ST_CONTENT, ST_BATCH}

(***************************************************************************)
(* Context store: Database.set_ctx / get_ctx.  A key is a string; the      *)
(* model keeps its prefix and the uuid part apart.                         *)
(***************************************************************************)
PendingKey(id) == [prefix |-> "pending_", id |-> id]
TokenKey(id) == [prefix |-> "", id |-> id]

\* set_ctx whose update has no filter on the key: every document is set
set_ctx_no_filter(store, key, data) ==
    [k \in DOMAIN store \cup {key} |-> data]

set_ctx(store, key, data) == Put(store, key, data)

\* a store in which every entry has expired
get_ctx_expired(store, key) == <<>>

\* get_ctx returns <<>> for None and <<data>> for the stored data
get_ctx(store, key) == IF key \in DOMAIN store THEN <<store[key]>> ELSE <<>>

(***************************************************************************)
(* Conversation handlers.  Each action is one handler run to its return;   *)
(* the ConversationHandler of main() decides which handler an event gets:  *)
(* entry points first (allow_reentry), then the state's handlers, then the *)
(* fallbacks.                                                              *)
(***************************************************************************)
dbVars == <<banned, violations, ratelimits, contexts, reviews, members, posts,
            votes, adminMsgs, submitted, rejected>>
\* the variables a conversation handler never changes
raceVars == <<voteCalls, admitCalls, idLimit, nextTok>>

Msg(to, text) == [to |-> to, text |-> text]

Ran(op, uid, out) == [op |-> op, uid |-> uid, out |-> out]

\* a check that finds nobody banned
is_banned_nobody(uid) == FALSE

is_banned(uid) == uid \in banned

\* The sample texts a user sends in each text state.
StreamInputs == {BTN_CANCEL, StreamLaw, StreamMed, YearLaw, Junk}
YearInputs == {BTN_CANCEL, YearLaw, YearMed, Junk}
TeacherInputs == {NameShort, NameOk}
ContentInputs ==
    {BodyShort, BodyShortProfane, BodyPadded, BodyOk, BodyOkEmbedded,
     BodyProfane, BodyProfaneLong}
BatchInputs == {BTN_SUBMIT, BTN_MANAGE, BTN_ADD_MORE, BTN_CANCEL, Junk}

\* do_cancel, also reached from handler_stream and handler_year
do_cancel(u, op) ==
    /\ sessions' = Pop(sessions, u)
    /\ conv' = [conv EXCEPT ![u] = END]
    /\ last' = Ran(op, u, <<Msg(u, "Cancelled")>>)
    /\ UNCHANGED <<nextId, clock, dbVars, raceVars>>

\* do_cancel whose reply_text raises: the session has been popped, the
\* handler returns no state and the conversation stays where it was
do_cancel_reply_raises(u, op) ==
    /\ sessions' = Pop(sessions, u)
    /\ last' = [op |-> op, uid |-> u, out |-> <<>>, error |-> "TelegramError"]
    /\ UNCHANGED <<conv, nextId, clock, dbVars, raceVars>>

\* pending data that holds the body as the moderator's message shows it
PendingData_escaped(d, uid) ==
    [stream |-> d.stream, year |-> d.year, subject |-> d.subject,
     teacher |-> d.teacher, rating |-> d.rating, content |-> html_escape(d.content),
     parent_msg_id |-> d.parent_msg_id, is_additional |-> d.is_additional,
     user_id |-> uid]

\* The data do_submit stores under pending_<draft.id>
PendingData(d, uid) ==
    [stream |-> d.stream, year |-> d.year, subject |-> d.subject,
     teacher |-> d.teacher, rating |-> d.rating, content |-> d.content,
     parent_msg_id |-> d.parent_msg_id, is_additional |-> d.is_additional,
     user_id |-> uid]

\* The text do_submit sends to the moderator, with its kb_admin keyboard
AdminText(d, uid, ok) ==
    [to |-> ADMIN_ID, text |-> "REVIEW", thread |-> d.is_additional,
     uid |-> uid, rev_id |-> d.id, stream |-> html_escape(d.stream),
     year |-> html_escape(d.year), subject |-> html_escape(d.subject),
     teacher |-> html_escape(d.teacher), rating |-> d.rating,
     stars |-> stars_str(d.rating), parent |-> d.parent_msg_id,
     content |-> html_escape(d.content), ok |-> ok]

\* The loop left at the first send to the moderator that fails
RECURSIVE submit_loop_stops_on_failure(_, _, _, _, _)
submit_loop_stops_on_failure(u, ds, i, deliver, acc) ==
    IF i > Len(ds)
    THEN acc
    ELSE LET d == ds[i]
             r == rate_limit_ok(find_timestamps(acc.rl, u), clock)
             next == [rl |-> Put(acc.rl, u, r.timestamps),
                      ctx |-> set_ctx(acc.ctx, PendingKey(d.id), PendingData(d, u)),
                      am |-> IF i \in deliver
                             THEN Put(acc.am, <<u, d.id>>, "admin")
                             ELSE acc.am,
                      out |-> Append(acc.out, AdminText(d, u, i \in deliver)),
                      n |-> IF i \in deliver THEN acc.n + 1 ELSE acc.n,
                      hist |-> Put(acc.hist, d.id, d)]
         IN  IF ~r.ok
             THEN [acc EXCEPT !.out = Append(@,
                      [to |-> u, text |-> "ERR_RATE_LIMIT", n |-> acc.n])]
             ELSE IF i \notin deliver
             THEN next
             ELSE submit_loop_stops_on_failure(u, ds, i + 1, deliver, next)

\* The loop with the admission check made for the first draft only: once
\* per batch
RECURSIVE submit_loop_checked_once(_, _, _, _, _)
submit_loop_checked_once(u, ds, i, deliver, acc) ==
    IF i > Len(ds)
    THEN acc
    ELSE LET d == ds[i]
             r == IF i = 1
                  THEN rate_limit_ok(find_timestamps(acc.rl, u), clock)
                  ELSE [ok |-> TRUE, write |-> FALSE,
                        timestamps |-> find_timestamps(acc.rl, u)]
         IN  IF ~r.ok
             THEN [acc EXCEPT !.out = Append(@,
                      [to |-> u, text |-> "ERR_RATE_LIMIT", n |-> acc.n])]
             ELSE submit_loop_checked_once(u, ds, i + 1, deliver,
                      [rl |-> Put(acc.rl, u, r.timestamps),
                       ctx |-> set_ctx(acc.ctx, PendingKey(d.id), PendingData(d, u)),
                       am |-> IF i \in deliver
                              THEN Put(acc.am, <<u, d.id>>, "admin")
                              ELSE acc.am,
                       out |-> Append(acc.out, AdminText(d, u, i \in deliver)),
                       n |-> IF i \in deliver THEN acc.n + 1 ELSE acc.n,
                       hist |-> Put(acc.hist, d.id, d)])

\* The for loop of do_submit from the i-th committed draft on.  deliver is the
\* set of positions whose send to the moderator succeeds.
RECURSIVE submit_loop(_, _, _, _, _)
submit_loop(u, ds, i, deliver, acc) ==
    IF i > Len(ds)
    THEN acc
    ELSE LET d == ds[i]
             r == rate_limit_ok(find_timestamps(acc.rl, u), clock)
         IN  IF ~r.ok
             THEN [acc EXCEPT !.out = Append(@,
                      [to |-> u, text |-> "ERR_RATE_LIMIT", n |-> acc.n])]
             ELSE submit_loop(u, ds, i + 1, deliver,
                      [rl |-> Put(acc.rl, u, r.timestamps),
                       ctx |-> set_ctx(acc.ctx, PendingKey(d.id), PendingData(d, u)),
                       am |-> IF i \in deliver
                              THEN Put(acc.am, <<u, d.id>>, "admin")
                              ELSE acc.am,
                       out |-> Append(acc.out, AdminText(d, u, i \in deliver)),
                       n |-> IF i \in deliver THEN acc.n + 1 ELSE acc.n,
                       hist |-> Put(acc.hist, d.id, d)])

\* do_submit(uid, update, context), entered with the session as the calling
\* handler left it; hasUpdate is FALSE for the call from cb_manage_drafts.
do_submit(u, op, sess, hasUpdate, deliver) ==
    IF sess.drafts = <<>>
    THEN /\ sessions' = Put(sessions, u, sess)
         /\ conv' = [conv EXCEPT ![u] = END]
         /\ last' = Ran(op, u, IF hasUpdate THEN <<Msg(u, "ERR_NO_DATA")>> ELSE <<>>)
         /\ UNCHANGED <<nextId, clock, dbVars, raceVars>>
    ELSE LET res == submit_loop(u, sess.drafts, 1, deliver,
                        [rl |-> ratelimits, ctx |-> contexts, am |-> adminMsgs,
                         out |-> IF hasUpdate THEN <<Msg(u, "Transmitting")>> ELSE <<>>,
                         n |-> 0, hist |-> submitted])
         IN  /\ ratelimits' = res.rl
             /\ contexts' = res.ctx
             /\ adminMsgs' = res.am
             /\ submitted' = res.hist
             /\ rejected' = rejected
             /\ sessions' = Pop(sessions, u)
             /\ conv' = [conv EXCEPT ![u] = END]
             /\ last' = Ran(op, u, Append(res.out, Msg(u, "SUCCESS_SUBMITTED")))
             /\ UNCHANGED <<nextId, clock, banned, violations, reviews, members,
                            posts, votes, raceVars>>

\* handler_start_review: the "Write a Review" text, an entry point in every state
start_review(u, op, store) ==
    IF is_banned(u)
    THEN /\ conv' = [conv EXCEPT ![u] = END]
         /\ sessions' = store
         /\ last' = Ran(op, u, <<Msg(u, "ERR_BANNED")>>)
         /\ UNCHANGED <<nextId, clock, dbVars, raceVars>>
    ELSE /\ nextId <= idLimit
         /\ sessions' = Put(store, u, new_draft(session(store, u), nextId))
         /\ nextId' = nextId + 1
         /\ conv' = [conv EXCEPT ![u] = ST_STREAM]
         /\ last' = Ran(op, u, <<Msg(u, "PROMPT_STREAM")>>)
         /\ UNCHANGED <<clock, dbVars, raceVars>>

handler_start_review(u) == start_review(u, "handler_start_review", sessions)

\* The keys a user may put after "add_" in the start command: any stored key,
\* or one that is not stored.
StartKeys == DOMAIN contexts \cup {TokenKey(0)}

\* cmd_start that resumes from a token in the session the user has
cmd_start_keeps_session(u, arg) ==
    IF is_banned(u)
    THEN /\ conv' = [conv EXCEPT ![u] = END]
         /\ last' = Ran("cmd_start", u, <<Msg(u, "ERR_BANNED")>>)
         /\ UNCHANGED <<sessions, nextId, clock, dbVars, raceVars>>
    ELSE LET data == IF arg = <<>> THEN <<>> ELSE get_ctx(contexts, arg[1])
         IN  IF data # <<>>
             THEN /\ nextId <= idLimit
                  /\ sessions' = Put(sessions, u,
                        [session(sessions, u) EXCEPT !.draft =
                            <<[Draft(nextId) EXCEPT
                                 !.stream = data[1].stream,
                                 !.year = data[1].year,
                                 !.subject = data[1].subject,
                                 !.teacher = data[1].teacher,
                                 !.parent_msg_id = data[1].parent_msg_id,
                                 !.is_additional = TRUE]>>])
                  /\ nextId' = nextId + 1
                  /\ conv' = [conv EXCEPT ![u] = ST_RATING]
                  /\ last' = Ran("cmd_start", u,
                        <<[to |-> u, text |-> "WELCOME_DEEP",
                           teacher |-> html_escape(data[1].teacher),
                           subject |-> html_escape(data[1].subject)]>>)
                  /\ UNCHANGED <<clock, dbVars, raceVars>>
             ELSE /\ sessions' = Put(sessions, u, Session)
                  /\ conv' = [conv EXCEPT ![u] = END]
                  /\ last' = Ran("cmd_start", u,
                        IF arg = <<>>
                        THEN <<Msg(u, "WELCOME")>>
                        ELSE <<Msg(u, "link expired"), Msg(u, "WELCOME")>>)
                  /\ UNCHANGED <<nextId, clock, dbVars, raceVars>>

\* cmd_start; arg is <<>> for no argument and <<key>> for "add_" and a key
cmd_start(u, arg) ==
    IF is_banned(u)
    THEN /\ conv' = [conv EXCEPT ![u] = END]
         /\ last' = Ran("cmd_start", u, <<Msg(u, "ERR_BANNED")>>)
         /\ UNCHANGED <<sessions, nextId, clock, dbVars, raceVars>>
    ELSE LET data == IF arg = <<>> THEN <<>> ELSE get_ctx(contexts, arg[1])
         IN  IF data # <<>>
             THEN /\ nextId <= idLimit
                  /\ sessions' = Put(sessions, u,
                        [Session EXCEPT !.draft =
                            <<[Draft(nextId) EXCEPT
                                 !.stream = data[1].stream,
                                 !.year = data[1].year,
                                 !.subject = data[1].subject,
                                 !.teacher = data[1].teacher,
                                 !.parent_msg_id = data[1].parent_msg_id,
                                 !.is_additional = TRUE]>>])
                  /\ nextId' = nextId + 1
                  /\ conv' = [conv EXCEPT ![u] = ST_RATING]
                  /\ last' = Ran("cmd_start", u,
                        <<[to |-> u, text |-> "WELCOME_DEEP",
                           teacher |-> html_escape(data[1].teacher),
                           subject |-> html_escape(data[1].subject)]>>)
                  /\ UNCHANGED <<clock, dbVars, raceVars>>
             ELSE /\ sessions' = Put(sessions, u, Session)
                  /\ conv' = [conv EXCEPT ![u] = END]
                  /\ last' = Ran("cmd_start", u,
                        IF arg = <<>>
                        THEN <<Msg(u, "WELCOME")>>
                        ELSE <<Msg(u, "link expired"), Msg(u, "WELCOME")>>)
                  /\ UNCHANGED <<nextId, clock, dbVars, raceVars>>

\* A handler that reads sess.draft when it is None raises AttributeError: the
\* conversation state stays, the session that session(uid) created remains.
raise_no_draft(u, op) ==
    /\ sessions' = Put(sessions, u, session(sessions, u))
    /\ last' = [op |-> op, uid |-> u, out |-> <<>>, error |-> "AttributeError"]
    /\ UNCHANGED <<conv, nextId, clock, dbVars, raceVars>>

\* Stay in or move to a state with the session rewritten and one reply
Step(u, op, sess, to, out) ==
    /\ sessions' = Put(sessions, u, sess)
    /\ conv' = [conv EXCEPT ![u] = to]
    /\ last' = Ran(op, u, out)
    /\ UNCHANGED <<nextId, clock, dbVars, raceVars>>

\* A reply that touches neither the session store nor the state
Reprompt(u, op, out) ==
    /\ last' = Ran(op, u, out)
    /\ UNCHANGED <<conv, sessions, nextId, clock, dbVars, raceVars>>

handler_stream(u, text) ==
    IF text = BTN_CANCEL
    THEN do_cancel(u, "handler_stream")
    ELSE IF text \notin DOMAIN ACADEMIC_DB
    THEN Reprompt(u, "handler_stream", <<Msg(u, "ERR_INVALID")>>)
    ELSE LET sess == session(sessions, u)
         IN  IF sess.draft = <<>>
             THEN raise_no_draft(u, "handler_stream")
             ELSE Step(u, "handler_stream",
                       [sess EXCEPT !.draft[1].stream = text],
                       ST_YEAR, <<Msg(u, "PROMPT_YEAR")>>)

handler_year(u, text) ==
    IF text = BTN_CANCEL
    THEN do_cancel(u, "handler_year")
    ELSE LET sess == session(sessions, u)
         IN  IF sess.draft = <<>>
             THEN raise_no_draft(u, "handler_year")
             ELSE LET stream == sess.draft[1].stream
                      years == Get(ACADEMIC_DB, stream, EmptyMap)
                  IN  IF text \notin DOMAIN years
                      THEN Step(u, "handler_year", sess, ST_YEAR,
                                <<Msg(u, "ERR_INVALID")>>)
                      ELSE Step(u, "handler_year",
                                [sess EXCEPT !.draft[1].year = text,
                                             !.current_subjects = years[text],
                                             !.subject_page = 0],
                                ST_SUBJECT,
                                <<Msg(u, "PROMPT_SUBJECT"), Msg(u, "Page 1")>>)

\* the subjects kb_subjects(subjects, page) shows
PageChunk(subjects, page) ==
    SubSeq(subjects, page * SUBJECTS_PER_PAGE + 1,
           IF (page + 1) * SUBJECTS_PER_PAGE < Len(subjects)
           THEN (page + 1) * SUBJECTS_PER_PAGE ELSE Len(subjects))

\* the spage| values kb_subjects(subjects, page) offers: -1 stands for "noop"
PageButtons(subjects, page) ==
    {-1} \cup (IF page > 0 THEN {page - 1} ELSE {})
         \cup (IF page * SUBJECTS_PER_PAGE + SUBJECTS_PER_PAGE < Len(subjects)
               THEN {page + 1} ELSE {})

cb_subject_page(u, val) ==
    IF val = -1
    THEN Reprompt(u, "cb_subject_page", <<>>)
    ELSE Step(u, "cb_subject_page",
              [session(sessions, u) EXCEPT !.subject_page = val],
              ST_SUBJECT, <<Msg(u, "Page")>>)

cb_subject_select(u, subject) ==
    LET sess == session(sessions, u)
    IN  IF sess.draft = <<>>
        THEN raise_no_draft(u, "cb_subject_select")
        ELSE Step(u, "cb_subject_select",
                  [sess EXCEPT !.draft[1].subject = subject],
                  ST_TEACHER,
                  <<Msg(u, "Subject selected"), Msg(u, "PROMPT_TEACHER")>>)

cb_conv_cancel(u) ==
    /\ sessions' = Pop(sessions, u)
    /\ conv' = [conv EXCEPT ![u] = END]
    /\ last' = Ran("cb_conv_cancel", u, <<Msg(u, "Cancelled"), Msg(u, "menu")>>)
    /\ UNCHANGED <<nextId, clock, dbVars, raceVars>>

\* handler_teacher that takes a name of two characters
handler_teacher_min_two(u, raw) ==
    LET text == Strip(raw)
    IN  IF Len(text) < MIN_NAME_LEN - 1
        THEN Reprompt(u, "handler_teacher", <<Msg(u, "ERR_SHORT_NAME")>>)
        ELSE LET sess == session(sessions, u)
             IN  IF sess.draft = <<>>
                 THEN raise_no_draft(u, "handler_teacher")
                 ELSE Step(u, "handler_teacher",
                           [sess EXCEPT !.draft[1].teacher = text],
                           ST_RATING, <<Msg(u, "PROMPT_RATING")>>)

handler_teacher(u, raw) ==
    LET text == Strip(raw)
    IN  IF Len(text) < MIN_NAME_LEN
        THEN Reprompt(u, "handler_teacher", <<Msg(u, "ERR_SHORT_NAME")>>)
        ELSE LET sess == session(sessions, u)
             IN  IF sess.draft = <<>>
                 THEN raise_no_draft(u, "handler_teacher")
                 ELSE Step(u, "handler_teacher",
                           [sess EXCEPT !.draft[1].teacher = text],
                           ST_RATING, <<Msg(u, "PROMPT_RATING")>>)

cb_rating(u, rating) ==
    LET sess == session(sessions, u)
    IN  IF sess.draft = <<>>
        THEN raise_no_draft(u, "cb_rating")
        ELSE Step(u, "cb_rating",
                  [sess EXCEPT !.draft[1].rating = rating],
                  ST_CONTENT, <<Msg(u, "PROMPT_CONTENT")>>)

\* a violation counted twice
add_violation_by_two(store, uid) == Put(store, uid, Get(store, uid, 0) + 2)

\* Database.add_violation: find_one_and_update with $inc, the new count back
add_violation(store, uid) == Put(store, uid, Get(store, uid, 0) + 1)

\* handler_content that stores the body before the content filter sees it
handler_content_keeps_body(u, raw, deliver) ==
    LET text == Strip(raw)
        sess == session(sessions, u)
    IN  IF Len(text) < MIN_REVIEW_LEN
        THEN Step(u, "handler_content", sess, ST_CONTENT,
                  <<Msg(u, "ERR_SHORT_REVIEW")>>)
        ELSE IF contains_profanity(text)
        THEN LET strikes == add_violation(violations, u)[u]
             IN  /\ violations' = add_violation(violations, u)
                 /\ IF strikes >= MAX_PROFANITY_STRIKES
                    THEN /\ banned' = banned \cup {u}
                         /\ sessions' = Pop(sessions, u)
                         /\ conv' = [conv EXCEPT ![u] = END]
                         /\ last' = Ran("handler_content", u,
                               <<[to |-> u, text |-> "ERR_PROFANITY banned"]>>)
                    ELSE /\ banned' = banned
                         /\ sessions' = Put(sessions, u,
                               IF sess.draft = <<>> THEN sess
                               ELSE [sess EXCEPT !.draft[1].content = text])
                         /\ conv' = conv
                         /\ last' = Ran("handler_content", u,
                               <<[to |-> u, text |-> "ERR_PROFANITY strike",
                                  strikes |-> strikes]>>)
                 /\ UNCHANGED <<nextId, clock, ratelimits, contexts, reviews,
                                members, posts, votes, adminMsgs, submitted, rejected,
                                raceVars>>
        ELSE IF sess.draft = <<>>
        THEN raise_no_draft(u, "handler_content")
        ELSE LET done == commit_draft([sess EXCEPT !.draft[1].content = text])
             IN  IF done.drafts # <<>> /\ done.drafts[Len(done.drafts)].is_additional
                 THEN do_submit(u, "handler_content", done, TRUE, deliver)
                 ELSE Step(u, "handler_content", done, ST_BATCH,
                           <<[to |-> u, text |-> "SUCCESS_DRAFT_SAVED",
                              n |-> Len(done.drafts)]>>)

\* handler_content that measures the body before strip()
handler_content_raw_length(u, raw, deliver) ==
    LET text == Strip(raw)
        sess == session(sessions, u)
    IN  IF Len(raw) < MIN_REVIEW_LEN
        THEN Step(u, "handler_content", sess, ST_CONTENT,
                  <<Msg(u, "ERR_SHORT_REVIEW")>>)
        ELSE IF contains_profanity(text)
        THEN LET strikes == add_violation(violations, u)[u]
             IN  /\ violations' = add_violation(violations, u)
                 /\ IF strikes >= MAX_PROFANITY_STRIKES
                    THEN /\ banned' = banned \cup {u}
                         /\ sessions' = Pop(sessions, u)
                         /\ conv' = [conv EXCEPT ![u] = END]
                         /\ last' = Ran("handler_content", u,
                               <<[to |-> u, text |-> "ERR_PROFANITY banned"]>>)
                    ELSE /\ banned' = banned
                         /\ sessions' = Put(sessions, u, sess)
                         /\ conv' = conv
                         /\ last' = Ran("handler_content", u,
                               <<[to |-> u, text |-> "ERR_PROFANITY strike",
                                  strikes |-> strikes]>>)
                 /\ UNCHANGED <<nextId, clock, ratelimits, contexts, reviews,
                                members, posts, votes, adminMsgs, submitted, rejected,
                                raceVars>>
        ELSE IF sess.draft = <<>>
        THEN raise_no_draft(u, "handler_content")
        ELSE LET done == commit_draft([sess EXCEPT !.draft[1].content = text])
             IN  IF done.drafts # <<>> /\ done.drafts[Len(done.drafts)].is_additional
                 THEN do_submit(u, "handler_content", done, TRUE, deliver)
                 ELSE Step(u, "handler_content", done, ST_BATCH,
                           <<[to |-> u, text |-> "SUCCESS_DRAFT_SAVED",
                              n |-> Len(done.drafts)]>>)

handler_content(u, raw, deliver) ==
    LET text == Strip(raw)
        sess == session(sessions, u)
    IN  IF Len(text) < MIN_REVIEW_LEN
        THEN Step(u, "handler_content", sess, ST_CONTENT,
                  <<Msg(u, "ERR_SHORT_REVIEW")>>)
        ELSE IF contains_profanity(text)
        THEN LET strikes == add_violation(violations, u)[u]
             IN  /\ violations' = add_violation(violations, u)
                 /\ IF strikes >= MAX_PROFANITY_STRIKES
                    THEN /\ banned' = banned \cup {u}
                         /\ sessions' = Pop(sessions, u)
                         /\ conv' = [conv EXCEPT ![u] = END]
                         /\ last' = Ran("handler_content", u,
                               <<[to |-> u, text |-> "ERR_PROFANITY banned"]>>)
                    ELSE /\ banned' = banned
                         /\ sessions' = Put(sessions, u, sess)
                         /\ conv' = conv
                         /\ last' = Ran("handler_content", u,
                               <<[to |-> u, text |-> "ERR_PROFANITY strike",
                                  strikes |-> strikes]>>)
                 /\ UNCHANGED <<nextId, clock, ratelimits, contexts, reviews,
                                members, posts, votes, adminMsgs, submitted, rejected,
                                raceVars>>
        ELSE IF sess.draft = <<>>
        THEN raise_no_draft(u, "handler_content")
        ELSE LET done == commit_draft([sess EXCEPT !.draft[1].content = text])
             IN  IF done.drafts # <<>> /\ done.drafts[Len(done.drafts)].is_additional
                 THEN do_submit(u, "handler_content", done, TRUE, deliver)
                 ELSE Step(u, "handler_content", done, ST_BATCH,
                           <<[to |-> u, text |-> "SUCCESS_DRAFT_SAVED",
                              n |-> Len(done.drafts)]>>)

\* "Review Another Teacher" of handler_batch and "dadd" of cb_manage_drafts:
\* a new draft that keeps the stream of the last committed draft
add_another(u, op, sess) ==
    /\ nextId <= idLimit
    /\ sessions' = Put(sessions, u,
          [new_draft(sess, nextId) EXCEPT
              !.draft[1].stream = sess.drafts[Len(sess.drafts)].stream])
    /\ nextId' = nextId + 1
    /\ conv' = [conv EXCEPT ![u] = ST_YEAR]
    /\ last' = Ran(op, u, <<Msg(u, "PROMPT_YEAR")>>)
    /\ UNCHANGED <<clock, dbVars, raceVars>>

handler_batch(u, choice, deliver) ==
    LET sess == session(sessions, u)
    IN  IF choice = BTN_SUBMIT
        THEN do_submit(u, "handler_batch", sess, TRUE, deliver)
        ELSE IF choice = BTN_MANAGE
        THEN IF sess.drafts = <<>>
             THEN Step(u, "handler_batch", sess, ST_BATCH, <<Msg(u, "No drafts yet")>>)
             ELSE Step(u, "handler_batch", sess, ST_MANAGE,
                       <<[to |-> u, text |-> "Manage", n |-> Len(sess.drafts)]>>)
        ELSE IF choice = BTN_ADD_MORE
        THEN IF sess.drafts = <<>>
             THEN start_review(u, "handler_batch", Put(sessions, u, sess))
             ELSE add_another(u, "handler_batch", sess)
        ELSE Step(u, "handler_batch", sess, ST_BATCH, <<Msg(u, "ERR_INVALID")>>)

\* the callback data of kb_manage: "dsubmit", "dadd", "ddel|idx", "dedit|idx"
cb_manage_drafts(u, data, deliver) ==
    LET sess == session(sessions, u)
    IN  IF data.cmd = "dsubmit"
        THEN do_submit(u, "cb_manage_drafts", sess, FALSE, deliver)
        ELSE IF data.cmd = "dadd"
        THEN IF sess.drafts # <<>>
             THEN add_another(u, "cb_manage_drafts", sess)
             ELSE Step(u, "cb_manage_drafts", sess, ST_YEAR, <<Msg(u, "Starting")>>)
        ELSE IF data.cmd = "ddel"
        THEN LET r == delete(sess, data.idx)
             IN  IF r.sess.drafts = <<>>
                 THEN Step(u, "cb_manage_drafts", r.sess, END,
                           <<Msg(u, "All drafts deleted")>>)
                 ELSE Step(u, "cb_manage_drafts", r.sess, ST_MANAGE,
                           <<[to |-> u, text |-> "Remaining", n |-> Len(r.sess.drafts)]>>)
        ELSE LET r == pop_for_edit(sess, data.idx)
             IN  IF r.ok
                 THEN Step(u, "cb_manage_drafts", r.sess, ST_CONTENT,
                           <<Msg(u, "Editing")>>)
                 ELSE Step(u, "cb_manage_drafts", r.sess, ST_MANAGE, <<>>)

\* the indices the buttons of a manage keyboard of this or an earlier
\* session may carry
MaxIndex == 2

ManageData ==
    {[cmd |-> "dsubmit", idx |-> 0], [cmd |-> "dadd", idx |-> 0]}
    \cup {[cmd |-> c, idx |-> i] : c \in {"ddel", "dedit"}, i \in 0..MaxIndex}

(***************************************************************************)
(* Moderator callbacks: cb_admin, _approve, _reject.                       *)
(***************************************************************************)
\* Database.ban
ban(set, uid) == set \cup {uid}

\* the post sent to the channel on its own, never as a reply
ChannelPost_no_reply(data, rev_id, token) ==
    [additional |-> data.is_additional,
     subject |-> html_escape(data.subject),
     teacher |-> html_escape(data.teacher),
     rating |-> data.rating, stars |-> stars_str(data.rating),
     content |-> html_escape(data.content),
     rev_id |-> rev_id, up |-> 0, down |-> 0, deep_link |-> token,
     reply_to |-> NoParent]

\* the post _approve sends to the channel
ChannelPost(data, rev_id, token) ==
    [additional |-> data.is_additional,
     subject |-> html_escape(data.subject),
     teacher |-> html_escape(data.teacher),
     rating |-> data.rating, stars |-> stars_str(data.rating),
     content |-> html_escape(data.content),
     rev_id |-> rev_id, up |-> 0, down |-> 0, deep_link |-> token,
     reply_to |-> data.parent_msg_id]

\* the document _approve hands to Database.add_review
ReviewDoc(data, msg_id, now) ==
    [teacher |-> data.teacher, subject |-> data.subject, stream |-> data.stream,
     year |-> data.year, rating |-> data.rating, content |-> data.content,
     timestamp |-> now, msg_id |-> msg_id]

\* the thread parent taken from the post just sent, whatever the draft carried
next_parent_latest(parent_msg_id, sent_id) == sent_id

\* next_parent of _approve
next_parent(parent_msg_id, sent_id) ==
    IF parent_msg_id # NoParent THEN parent_msg_id ELSE sent_id

\* the context _approve stores under the fresh token
ResumeData(data, parent) ==
    [stream |-> data.stream, year |-> data.year, subject |-> data.subject,
     teacher |-> data.teacher, parent_msg_id |-> parent]

\* query.edit_message_text on the moderator's message: the keyboard becomes kb
\* when the call succeeds; when it fails the handler ends with the exception
edit_admin(key, kb, editOk) ==
    IF editOk /\ key \in DOMAIN adminMsgs THEN Put(adminMsgs, key, kb) ELSE adminMsgs

\* _approve that unlocks the archive for the submitter before it looks the
\* pending entry up
approve_unlocks_first(user_id, rev_id, postOk, editOk) ==
    LET data == get_ctx(contexts, PendingKey(rev_id))
        key == <<user_id, rev_id>>
    IN  IF data = <<>>
        THEN /\ members' = members \cup {user_id}
             /\ last' = Ran("_approve", ADMIN_ID, <<Msg(ADMIN_ID, "Pending data not found")>>)
             /\ UNCHANGED <<conv, sessions, nextId, clock, banned, violations, ratelimits,
                            contexts, reviews, posts, votes, adminMsgs, submitted, rejected,
                            raceVars>>
        ELSE IF ~postOk
        THEN /\ last' = Ran("_approve", ADMIN_ID, <<Msg(ADMIN_ID, "Channel post failed")>>)
             /\ UNCHANGED <<conv, sessions, nextId, clock, dbVars, raceVars>>
        ELSE LET d == data[1]
                 sent_id == Len(posts) + 1
                 parent == next_parent(d.parent_msg_id, sent_id)
             IN  /\ Len(posts) < MaxPosts
                 /\ posts' = Append(posts, ChannelPost(d, rev_id, nextTok))
                 /\ contexts' = set_ctx(contexts, TokenKey(nextTok), ResumeData(d, parent))
                 /\ nextTok' = nextTok + 1
                 /\ reviews' = Append(reviews, ReviewDoc(d, sent_id, clock))
                 /\ members' = members \cup {user_id}
                 /\ adminMsgs' = edit_admin(key, "none", editOk)
                 /\ last' = [op |-> "_approve", uid |-> ADMIN_ID,
                             out |-> <<[to |-> "channel", text |-> "POST", msg_id |-> sent_id],
                                       Msg(user_id, "approved")>>,
                             rev_id |-> rev_id, msg_id |-> sent_id,
                             token |-> nextTok, edited |-> editOk]
                 /\ UNCHANGED <<conv, sessions, nextId, clock, banned, violations,
                                ratelimits, votes, submitted, rejected, voteCalls, admitCalls,
                                idLimit>>

\* _approve that stores the resume entry before it posts to the channel
approve_stores_token_first(user_id, rev_id, postOk, editOk) ==
    LET data == get_ctx(contexts, PendingKey(rev_id))
        key == <<user_id, rev_id>>
    IN  IF data = <<>>
        THEN /\ last' = Ran("_approve", ADMIN_ID, <<Msg(ADMIN_ID, "Pending data not found")>>)
             /\ UNCHANGED <<conv, sessions, nextId, clock, dbVars, raceVars>>
        ELSE IF ~postOk
        THEN /\ contexts' = set_ctx(contexts, TokenKey(nextTok),
                                    ResumeData(data[1], data[1].parent_msg_id))
             /\ nextTok' = nextTok + 1
             /\ last' = Ran("_approve", ADMIN_ID, <<Msg(ADMIN_ID, "Channel post failed")>>)
             /\ UNCHANGED <<conv, sessions, nextId, clock, banned, violations, ratelimits,
                            reviews, members, posts, votes, adminMsgs, submitted, rejected,
                            voteCalls, admitCalls, idLimit>>
        ELSE LET d == data[1]
                 sent_id == Len(posts) + 1
                 parent == next_parent(d.parent_msg_id, sent_id)
             IN  /\ Len(posts) < MaxPosts
                 /\ posts' = Append(posts, ChannelPost(d, rev_id, nextTok))
                 /\ contexts' = set_ctx(contexts, TokenKey(nextTok), ResumeData(d, parent))
                 /\ nextTok' = nextTok + 1
                 /\ reviews' = Append(reviews, ReviewDoc(d, sent_id, clock))
                 /\ members' = members \cup {user_id}
                 /\ adminMsgs' = edit_admin(key, "none", editOk)
                 /\ last' = [op |-> "_approve", uid |-> ADMIN_ID,
                             out |-> <<[to |-> "channel", text |-> "POST", msg_id |-> sent_id],
                                       Msg(user_id, "approved")>>,
                             rev_id |-> rev_id, msg_id |-> sent_id,
                             token |-> nextTok, edited |-> editOk]
                 /\ UNCHANGED <<conv, sessions, nextId, clock, banned, violations,
                                ratelimits, votes, submitted, rejected, voteCalls, admitCalls,
                                idLimit>>

approve(user_id, rev_id, postOk, editOk) ==
    LET data == get_ctx(contexts, PendingKey(rev_id))
        key == <<user_id, rev_id>>
    IN  IF data = <<>>
        THEN /\ last' = Ran("_approve", ADMIN_ID, <<Msg(ADMIN_ID, "Pending data not found")>>)
             /\ UNCHANGED <<conv, sessions, nextId, clock, dbVars, raceVars>>
        ELSE IF ~postOk
        THEN /\ last' = Ran("_approve", ADMIN_ID, <<Msg(ADMIN_ID, "Channel post failed")>>)
             /\ UNCHANGED <<conv, sessions, nextId, clock, dbVars, raceVars>>
        ELSE LET d == data[1]
                 sent_id == Len(posts) + 1
                 parent == next_parent(d.parent_msg_id, sent_id)
             IN  /\ Len(posts) < MaxPosts
                 /\ posts' = Append(posts, ChannelPost(d, rev_id, nextTok))
                 /\ contexts' = set_ctx(contexts, TokenKey(nextTok), ResumeData(d, parent))
                 /\ nextTok' = nextTok + 1
                 /\ reviews' = Append(reviews, ReviewDoc(d, sent_id, clock))
                 /\ members' = members \cup {user_id}
                 /\ adminMsgs' = edit_admin(key, "none", editOk)
                 /\ last' = [op |-> "_approve", uid |-> ADMIN_ID,
                             out |-> <<[to |-> "channel", text |-> "POST", msg_id |-> sent_id],
                                       Msg(user_id, "approved")>>,
                             rev_id |-> rev_id, msg_id |-> sent_id,
                             token |-> nextTok, edited |-> editOk]
                 /\ UNCHANGED <<conv, sessions, nextId, clock, banned, violations,
                                ratelimits, votes, submitted, rejected, voteCalls, admitCalls,
                                idLimit>>

\* _approve that tells the submitter before it posts, and gives up when the
\* submitter cannot be reached
approve_tells_first(user_id, rev_id, postOk, inviteOk, notifyOk, editOk) ==
    LET data == get_ctx(contexts, PendingKey(rev_id))
        key == <<user_id, rev_id>>
    IN  IF data = <<>> \/ ~postOk \/ ~notifyOk
        THEN /\ last' = [op |-> "_approve", uid |-> ADMIN_ID, out |-> <<>>,
                         rev_id |-> rev_id, invited |-> inviteOk,
                         notified |-> notifyOk]
             /\ UNCHANGED <<conv, sessions, nextId, clock, dbVars, raceVars>>
        ELSE LET d == data[1]
                 sent_id == Len(posts) + 1
                 parent == next_parent(d.parent_msg_id, sent_id)
             IN  /\ Len(posts) < MaxPosts
                 /\ posts' = Append(posts, ChannelPost(d, rev_id, nextTok))
                 /\ contexts' = set_ctx(contexts, TokenKey(nextTok), ResumeData(d, parent))
                 /\ nextTok' = nextTok + 1
                 /\ reviews' = Append(reviews, ReviewDoc(d, sent_id, clock))
                 /\ members' = members \cup {user_id}
                 /\ adminMsgs' = edit_admin(key, "none", editOk)
                 /\ last' = [op |-> "_approve", uid |-> ADMIN_ID,
                             out |-> <<[to |-> user_id, text |-> "approved",
                                        invite |-> inviteOk],
                                       [to |-> "channel", text |-> "POST",
                                        msg_id |-> sent_id]>>,
                             rev_id |-> rev_id, msg_id |-> sent_id,
                             token |-> nextTok, edited |-> editOk,
                             invited |-> inviteOk, notified |-> notifyOk]
                 /\ UNCHANGED <<conv, sessions, nextId, clock, banned, violations,
                                ratelimits, votes, submitted, rejected, voteCalls, admitCalls,
                                idLimit>>

\* _approve with the outcomes of its two calls for the submitter:
\* create_chat_invite_link (inviteOk) and the send_message that carries the
\* link, or the words "the review archive" without one (notifyOk).  Each is
\* in a try/except that passes, so the handler goes on to edit the
\* moderator's message whatever they did.
approve_with(user_id, rev_id, postOk, inviteOk, notifyOk, editOk) ==
    LET data == get_ctx(contexts, PendingKey(rev_id))
        key == <<user_id, rev_id>>
    IN  IF data = <<>>
        THEN /\ last' = Ran("_approve", ADMIN_ID, <<Msg(ADMIN_ID, "Pending data not found")>>)
             /\ UNCHANGED <<conv, sessions, nextId, clock, dbVars, raceVars>>
        ELSE IF ~postOk
        THEN /\ last' = Ran("_approve", ADMIN_ID, <<Msg(ADMIN_ID, "Channel post failed")>>)
             /\ UNCHANGED <<conv, sessions, nextId, clock, dbVars, raceVars>>
        ELSE LET d == data[1]
                 sent_id == Len(posts) + 1
                 parent == next_parent(d.parent_msg_id, sent_id)
             IN  /\ Len(posts) < MaxPosts
                 /\ posts' = Append(posts, ChannelPost(d, rev_id, nextTok))
                 /\ contexts' = set_ctx(contexts, TokenKey(nextTok), ResumeData(d, parent))
                 /\ nextTok' = nextTok + 1
                 /\ reviews' = Append(reviews, ReviewDoc(d, sent_id, clock))
                 /\ members' = members \cup {user_id}
                 /\ adminMsgs' = edit_admin(key, "none", editOk)
                 /\ last' = [op |-> "_approve", uid |-> ADMIN_ID,
                             out |-> <<[to |-> "channel", text |-> "POST",
                                        msg_id |-> sent_id]>>
                                     \o (IF notifyOk
                                         THEN <<[to |-> user_id, text |-> "approved",
                                                 invite |-> inviteOk]>>
                                         ELSE <<>>),
                             rev_id |-> rev_id, msg_id |-> sent_id,
                             token |-> nextTok, edited |-> editOk,
                             invited |-> inviteOk, notified |-> notifyOk]
                 /\ UNCHANGED <<conv, sessions, nextId, clock, banned, violations,
                                ratelimits, votes, submitted, rejected, voteCalls, admitCalls,
                                idLimit>>

\* _reject that sends the fallback message whatever the reason code
reject_generic(user_id, rev_id, reason, editOk) ==
    /\ adminMsgs' = edit_admin(<<user_id, rev_id>>, "none", editOk)
    /\ last' = [op |-> "_reject", uid |-> ADMIN_ID,
                out |-> <<Msg(user_id, REJECT_MSG["policy"])>>,
                rev_id |-> rev_id, reason |-> reason, edited |-> editOk]
    /\ UNCHANGED <<conv, sessions, nextId, clock, banned, violations, ratelimits,
                   contexts, reviews, members, posts, votes, submitted, raceVars>>
    /\ rejected' = rejected \cup {rev_id}

reject(user_id, rev_id, reason, editOk) ==
    /\ adminMsgs' = edit_admin(<<user_id, rev_id>>, "none", editOk)
    /\ last' = [op |-> "_reject", uid |-> ADMIN_ID,
                out |-> <<Msg(user_id, Get(REJECT_MSG, reason, REJECT_MSG["policy"]))>>,
                rev_id |-> rev_id, reason |-> reason, edited |-> editOk]
    /\ UNCHANGED <<conv, sessions, nextId, clock, banned, violations, ratelimits,
                   contexts, reviews, members, posts, votes, submitted, raceVars>>
    /\ rejected' = rejected \cup {rev_id}

\* cb_admin that serves whoever presses the button
cb_admin_anyone(from, data, postOk, editOk) ==
    LET key == <<data.uid, data.rev_id>>
    IN  IF data.action = "app"
        THEN approve(data.uid, data.rev_id, postOk, editOk)
        ELSE IF data.action = "rr"
        THEN reject(data.uid, data.rev_id, data.reason, editOk)
        ELSE IF data.action = "ban" /\ data.uid = ADMIN_ID
        THEN /\ last' = Ran("cb_admin", from, <<Msg(from, "Cannot ban yourself")>>)
             /\ UNCHANGED <<conv, sessions, nextId, clock, dbVars, raceVars>>
        ELSE /\ banned' = IF data.action = "ban" THEN ban(banned, data.uid) ELSE banned
             /\ adminMsgs' = edit_admin(key,
                    CASE data.action = "rej" -> "reject"
                      [] data.action = "rback" -> "admin"
                      [] OTHER -> "none",
                    editOk)
             /\ last' = [op |-> "cb_admin", uid |-> from, out |-> <<>>,
                         action |-> data.action, edited |-> editOk]
             /\ UNCHANGED <<conv, sessions, nextId, clock, violations, ratelimits,
                            contexts, reviews, members, posts, votes, submitted, rejected,
                            raceVars>>

\* cb_admin without the refusal to ban the moderator
cb_admin_bans_anyone(from, data, postOk, editOk) ==
    LET key == <<data.uid, data.rev_id>>
    IN  IF from # ADMIN_ID
        THEN /\ last' = Ran("cb_admin", from, <<Msg(from, "Admin only")>>)
             /\ UNCHANGED <<conv, sessions, nextId, clock, dbVars, raceVars>>
        ELSE IF data.action = "app"
        THEN approve(data.uid, data.rev_id, postOk, editOk)
        ELSE IF data.action = "rr"
        THEN reject(data.uid, data.rev_id, data.reason, editOk)
        ELSE /\ banned' = IF data.action = "ban" THEN ban(banned, data.uid) ELSE banned
             /\ adminMsgs' = edit_admin(key,
                    CASE data.action = "rej" -> "reject"
                      [] data.action = "rback" -> "admin"
                      [] OTHER -> "none",
                    editOk)
             /\ last' = [op |-> "cb_admin", uid |-> from, out |-> <<>>,
                         action |-> data.action, edited |-> editOk]
             /\ UNCHANGED <<conv, sessions, nextId, clock, violations, ratelimits,
                            contexts, reviews, members, posts, votes, submitted, rejected,
                            raceVars>>

\* cb_admin: data is the callback data split at "|"
cb_admin(from, data, postOk, editOk) ==
    LET key == <<data.uid, data.rev_id>>
    IN  IF from # ADMIN_ID
        THEN /\ last' = Ran("cb_admin", from, <<Msg(from, "Admin only")>>)
             /\ UNCHANGED <<conv, sessions, nextId, clock, dbVars, raceVars>>
        ELSE IF data.action = "app"
        THEN approve(data.uid, data.rev_id, postOk, editOk)
        ELSE IF data.action = "rr"
        THEN reject(data.uid, data.rev_id, data.reason, editOk)
        ELSE IF data.action = "ban" /\ data.uid = ADMIN_ID
        THEN /\ last' = Ran("cb_admin", from, <<Msg(from, "Cannot ban yourself")>>)
             /\ UNCHANGED <<conv, sessions, nextId, clock, dbVars, raceVars>>
        ELSE /\ banned' = IF data.action = "ban" THEN ban(banned, data.uid) ELSE banned
             /\ adminMsgs' = edit_admin(key,
                    CASE data.action = "rej" -> "reject"
                      [] data.action = "rback" -> "admin"
                      [] OTHER -> "none",
                    editOk)
             /\ last' = [op |-> "cb_admin", uid |-> from, out |-> <<>>,
                         action |-> data.action, edited |-> editOk]
             /\ UNCHANGED <<conv, sessions, nextId, clock, violations, ratelimits,
                            contexts, reviews, members, posts, votes, submitted, rejected,
                            raceVars>>

\* the callback data of the buttons a moderator message shows; reasons are
\* the rows of the reject menu the moderator may press
Buttons(key, kb, reasons) ==
    CASE kb = "admin" ->
            {[action |-> a, uid |-> key[1], rev_id |-> key[2], reason |-> None] :
                a \in {"app", "rej", "ban"}}
      [] kb = "reject" ->
            {[action |-> "rr", uid |-> key[1], rev_id |-> key[2], reason |-> c] :
                c \in reasons}
            \cup {[action |-> "rback", uid |-> key[1], rev_id |-> key[2], reason |-> None]}
      [] OTHER -> {}

(***************************************************************************)
(* Channel voting: cb_vote, with cast_vote run from its read to its write. *)
(***************************************************************************)
cb_vote(uid, msg_id, direction) ==
    LET r == cast_vote(find_vote_doc(votes, msg_id), uid, direction)
    IN  /\ votes' = IF r.write THEN update_vote_doc(votes, msg_id, r.doc) ELSE votes
        /\ posts' = IF r.changed /\ msg_id \in 1..Len(posts)
                    THEN [posts EXCEPT ![msg_id].up = r.up, ![msg_id].down = r.down]
                    ELSE posts
        /\ last' = [op |-> "cb_vote", uid |-> uid, out |-> <<>>, msg_id |-> msg_id,
                    direction |-> direction, changed |-> r.changed,
                    up |-> r.up, down |-> r.down,
                    prev |-> Get(find_vote_doc(votes, msg_id).voters, uid, None)]
        /\ UNCHANGED <<conv, sessions, nextId, clock, banned, violations, ratelimits,
                       contexts, reviews, members, adminMsgs, submitted, rejected, raceVars>>


(***************************************************************************)
(* Events.  Each action is one update handled to the end; it takes the     *)
(* sample inputs of the specification that uses it.                        *)
(***************************************************************************)
Chatters == {Student}

\* the update a handler is called with
Update(from, data) == [from |-> from, data |-> data]

\* The state after start-up with empty collections; ids is the number of
\* uuids the behaviours may draw.
Fresh(ids) ==
    /\ conv = [u \in Users |-> END]
    /\ sessions = EmptyMap
    /\ nextId = 1
    /\ nextTok = FirstToken
    /\ idLimit = ids
    /\ banned = {}
    /\ violations = EmptyMap
    /\ ratelimits = EmptyMap
    /\ contexts = EmptyMap
    /\ reviews = <<>>
    /\ members = {}
    /\ posts = <<>>
    /\ votes = EmptyMap
    /\ adminMsgs = EmptyMap
    /\ clock = 0
    /\ update = Update(0, None)
    /\ last = Ran("init", 0, <<>>)
    /\ submitted = EmptyMap
    /\ rejected = {}

\* no cast_vote and no rate_limit_ok call is suspended at an await
NoCalls == voteCalls = EmptyMap /\ admitCalls = EmptyMap

\* the outcomes of the sends to the moderator: every one succeeds, or the
\* sends at the given positions fail
Deliveries(u, failures) ==
    LET n == Len(session(sessions, u).drafts) + 1
    IN  {(1..n) \ f : f \in failures}

CmdStart(keys) ==
    \E u \in Chatters : \E arg \in {<<>>} \cup {<<k>> : k \in keys} :
        update' = Update(u, [command |-> "/start", arg |-> arg]) /\ cmd_start(u, arg)

StartReview ==
    \E u \in Chatters : update' = Update(u, BTN_WRITE) /\ handler_start_review(u)

HandlerStream(inputs) ==
    \E u \in Chatters : \E text \in inputs :
        conv[u] = ST_STREAM /\ update' = Update(u, text) /\ handler_stream(u, text)

HandlerYear(inputs) ==
    \E u \in Chatters : \E text \in inputs :
        conv[u] = ST_YEAR /\ update' = Update(u, text) /\ handler_year(u, text)

SubjectPage ==
    \E u \in Chatters :
        /\ conv[u] = ST_SUBJECT
        /\ \E val \in PageButtons(session(sessions, u).current_subjects,
                                  session(sessions, u).subject_page) :
              update' = Update(u, [spage |-> val]) /\ cb_subject_page(u, val)

SubjectSelect ==
    \E u \in Chatters :
        /\ conv[u] = ST_SUBJECT
        /\ LET sess == session(sessions, u)
               chunk == PageChunk(sess.current_subjects, sess.subject_page)
           IN  \E i \in 1..Len(chunk) :
                  update' = Update(u, [subj |-> chunk[i]]) /\ cb_subject_select(u, chunk[i])

ConvCancel ==
    \E u \in Chatters :
        conv[u] = ST_SUBJECT /\ update' = Update(u, "conv_cancel") /\ cb_conv_cancel(u)

HandlerTeacher(inputs) ==
    \E u \in Chatters : \E text \in inputs :
        conv[u] = ST_TEACHER /\ update' = Update(u, text) /\ handler_teacher(u, text)

Rating(inputs) ==
    \E u \in Chatters : \E r \in inputs :
        conv[u] = ST_RATING /\ update' = Update(u, [rate |-> r]) /\ cb_rating(u, r)

HandlerContent(inputs, failures) ==
    \E u \in Chatters : \E text \in inputs : \E deliver \in Deliveries(u, failures) :
        conv[u] = ST_CONTENT /\ update' = Update(u, text) /\ handler_content(u, text, deliver)

HandlerBatch(inputs, failures) ==
    \E u \in Chatters : \E text \in inputs : \E deliver \in Deliveries(u, failures) :
        conv[u] = ST_BATCH /\ update' = Update(u, text) /\ handler_batch(u, text, deliver)

ManageDrafts(inputs, failures) ==
    \E u \in Chatters : \E data \in inputs : \E deliver \in Deliveries(u, failures) :
        conv[u] = ST_MANAGE /\ update' = Update(u, data) /\ cb_manage_drafts(u, data, deliver)

\* the fallbacks: the /cancel command in any state, and the Cancel text in the
\* states whose own handlers take no text
CancelCommand ==
    \E u \in Chatters :
        conv[u] # END /\ update' = Update(u, [command |-> "/cancel", arg |-> <<>>])
                      /\ do_cancel(u, "do_cancel")

\* the /cancel command answered while the reply cannot be sent
CancelUnsent ==
    \E u \in Chatters :
        conv[u] # END /\ update' = Update(u, [command |-> "/cancel", arg |-> <<>>])
                      /\ do_cancel_reply_raises(u, "do_cancel")

CancelText ==
    \E u \in Chatters :
        /\ conv[u] \notin TextStates \cup {END}
        /\ update' = Update(u, BTN_CANCEL)
        /\ do_cancel(u, "do_cancel")

AdminButton(posting, editing, reasons) ==
    \E key \in DOMAIN adminMsgs : \E data \in Buttons(key, adminMsgs[key], reasons) :
        \E postOk \in posting, editOk \in editing :
            update' = Update(ADMIN_ID, data) /\ cb_admin(ADMIN_ID, data, postOk, editOk)

\* a moderator button's callback data sent by somebody else
ForeignAdminButton ==
    \E u \in Users \ {ADMIN_ID} : \E key \in DOMAIN adminMsgs :
        \E data \in Buttons(key, "admin", {"policy"}) \cup Buttons(key, "reject", {"policy"}) :
            update' = Update(u, data) /\ cb_admin(u, data, TRUE, TRUE)

Vote(voters) ==
    \E v \in voters : \E mid \in 1..Len(posts) : \E dir \in Directions :
        /\ update' = Update(v, [vote |-> dir, msg_id |-> mid])
        /\ cb_vote(v, mid, dir)

Tick ==
    /\ clock < MaxClock
    /\ clock' = clock + 1
    /\ UNCHANGED <<conv, sessions, nextId, update, last, dbVars, raceVars>>

(***************************************************************************)
(* SpecConv: the student's conversation up to submission, with every       *)
(* sample input.                                                           *)
(***************************************************************************)
NextConv ==
    \/ CmdStart({TokenKey(0)})
    \/ StartReview
    \/ HandlerStream(StreamInputs)
    \/ HandlerYear(YearInputs)
    \/ SubjectPage
    \/ SubjectSelect
    \/ ConvCancel
    \/ HandlerTeacher(TeacherInputs)
    \/ Rating({5})
    \/ HandlerContent(ContentInputs, {{}})
    \/ HandlerBatch(BatchInputs, {{}})
    \/ ManageDrafts(ManageData, {{}})
    \/ CancelCommand
    \/ CancelText

InitConv == Fresh(MaxConvIds) /\ NoCalls

SpecConv == InitConv /\ [][NextConv]_vars

(***************************************************************************)
(* Spec: the life of a review, from the conversation through submission,   *)
(* the moderator's decision and the channel post to the follow-ups resumed *)
(* from its deep link.                                                     *)
(***************************************************************************)
Next ==
    \/ CmdStart(StartKeys)
    \/ StartReview
    \/ HandlerStream({StreamLaw, StreamMed})
    \/ HandlerYear({YearLaw, YearMed})
    \/ SubjectSelect
    \/ HandlerTeacher({NameOk})
    \/ Rating(RatingInputs)
    \/ HandlerContent({BodyShort, BodyOk}, {{}})
    \/ HandlerBatch({BTN_SUBMIT}, {{}})
    \/ AdminButton(BOOLEAN, {TRUE}, {"tooshort"})

Init == Fresh(MaxIds) /\ NoCalls

Spec == Init /\ [][Next]_vars

(***************************************************************************)
(* The archive: the state the behaviours of Spec reach when the student    *)
(* has submitted n + m reviews at time 0, one at a time, and the moderator *)
(* has approved the first n, in the order of submission.                   *)
(***************************************************************************)
\* the i-th draft of the student, as the conversation leaves it in the session
SampleDraft(i) ==
    [Draft(i) EXCEPT
        !.stream = IF i % 2 = 1 THEN StreamLaw ELSE StreamMed,
        !.year = IF i % 2 = 1 THEN YearLaw ELSE YearMed,
        !.subject = IF i % 2 = 1 THEN SubjLaw ELSE SubjMed,
        !.teacher = Strip(NameOk),
        !.rating = IF i % 2 = 1 THEN 5 ELSE 1,
        !.content = Strip(BodyOk)]

SamplePending(i) == PendingData(SampleDraft(i), Student)

\* the collections, the clock and the token counter of the archive
ArchiveDb(n, m) ==
    /\ nextTok = FirstToken + n
    /\ banned = {}
    /\ violations = EmptyMap
    /\ ratelimits = IF n + m = 0 THEN EmptyMap ELSE [u \in {Student} |-> Rep(0, n + m)]
    /\ contexts =
          [k \in {PendingKey(i) : i \in 1..(n + m)}
                 \cup {TokenKey(FirstToken + i - 1) : i \in 1..n} |->
              IF k.prefix = "pending_"
              THEN SamplePending(k.id)
              ELSE ResumeData(SamplePending(k.id - FirstToken + 1),
                              next_parent(NoParent, k.id - FirstToken + 1))]
    /\ reviews = [i \in 1..n |-> ReviewDoc(SamplePending(i), i, 0)]
    /\ members = IF n = 0 THEN {} ELSE {Student}
    /\ posts = [i \in 1..n |-> ChannelPost(SamplePending(i), i, FirstToken + i - 1)]
    /\ votes = EmptyMap
    /\ adminMsgs = [k \in {<<Student, i>> : i \in 1..(n + m)} |->
                       IF k[2] <= n THEN "none" ELSE "admin"]
    /\ clock = 0
    /\ submitted = [i \in 1..(n + m) |-> SampleDraft(i)]
    /\ rejected = {}

\* the archive, with the last update: a submission, or the n-th approval
\* when nothing is pending
Archive(n, m, ids) ==
    /\ n + m > 0
    /\ ArchiveDb(n, m)
    /\ conv = [u \in Users |-> END]
    /\ sessions = EmptyMap
    /\ nextId = n + m + 1
    /\ idLimit = ids
    /\ update = IF m > 0
                THEN Update(Student, BTN_SUBMIT)
                ELSE Update(ADMIN_ID, [action |-> "app", uid |-> Student,
                                       rev_id |-> n, reason |-> None])
    /\ last = IF m > 0
              THEN Ran("handler_batch", Student,
                       <<Msg(Student, "Transmitting"),
                         AdminText(SampleDraft(n + m), Student, TRUE),
                         Msg(Student, "SUCCESS_SUBMITTED")>>)
              ELSE [op |-> "_approve", uid |-> ADMIN_ID,
                    out |-> <<[to |-> "channel", text |-> "POST", msg_id |-> n],
                              Msg(Student, "approved")>>,
                    rev_id |-> n, msg_id |-> n, token |-> FirstToken + n - 1,
                    edited |-> TRUE]

(***************************************************************************)
(* SpecVote: the votes of three users on the posts of the archive, each    *)
(* cb_vote run to its end before the next begins.                          *)
(***************************************************************************)
InitVote == Archive(MaxVoted, 0, MaxVoted) /\ NoCalls

NextVote == Vote(Voters)

SpecVote == InitVote /\ [][NextVote]_vars

\* the voters a ledger document records with the given choice
Bucket(doc, direction) == {v \in DOMAIN doc.voters : doc.voters[v] = direction}

\* C1: after any sequence of cast_vote calls that run one after the other,
\* every item's up and down counts are non-negative, each count is the number
\* of voters recorded with that choice (so up + down is the number of voters
\* who have voted), and the voter of the last call is recorded with the
\* choice of that call.
C1_VoteInvariant ==
    /\ \A mid \in DOMAIN votes :
          /\ votes[mid].up >= 0
          /\ votes[mid].down >= 0
          /\ votes[mid].up + votes[mid].down = Cardinality(DOMAIN votes[mid].voters)
          /\ votes[mid].up = Cardinality(Bucket(votes[mid], "up"))
          /\ votes[mid].down = Cardinality(Bucket(votes[mid], "down"))
    /\ last.op = "cb_vote" =>
          /\ last.msg_id \in DOMAIN votes
          /\ Get(votes[last.msg_id].voters, last.uid, None) = last.direction

\* a voter has switched from one bucket to the other while another voter stays
C1_Witness ==
    /\ last.op = "cb_vote"
    /\ last.changed
    /\ last.direction = "down"
    /\ last.up = 1
    /\ last.down = 2
    /\ Cardinality(DOMAIN votes[last.msg_id].voters) = 3

\* C10: a cast_vote call whose direction is the voter's recorded choice
\* returns changed = FALSE and leaves the counts and the voter map as they
\* were.
C10_RepeatIsNoOp ==
    [][(/\ last'.op = "cb_vote"
        /\ update'.data.msg_id \in DOMAIN votes
        /\ Get(votes[update'.data.msg_id].voters, update'.from, None) = update'.data.vote)
       => (/\ ~last'.changed
           /\ votes' = votes
           /\ posts' = posts
           /\ last'.up = votes[update'.data.msg_id].up
           /\ last'.down = votes[update'.data.msg_id].down)]_vars

\* a repeated vote has been answered
C10_Witness ==
    /\ last.op = "cb_vote"
    /\ ~last.changed
    /\ last.msg_id \in DOMAIN votes
    /\ Get(votes[last.msg_id].voters, last.uid, None) = last.direction
    /\ Cardinality(DOMAIN votes[last.msg_id].voters) = 2

(***************************************************************************)
(* SpecVoteRace: cb_vote calls of different voters on one post, each call  *)
(* a step up to the await of update_one and a step from there to the end.  *)
(* python-telegram-bot runs one update at a time unless it is built with   *)
(* concurrent_updates; the steps interleave when it is, or when a second   *)
(* process of the bot serves the same database.                            *)
(***************************************************************************)
NoCall == [pc |-> "idle", calls |-> 0, msg_id |-> 0, direction |-> None, r |-> None]

InitVoteRace ==
    /\ Archive(MaxVoted, 0, MaxVoted)
    /\ voteCalls = [v \in Voters |-> NoCall]
    /\ admitCalls = EmptyMap

\* cb_vote up to the second await of cast_vote: find_one, the early return
\* for a repeated direction, the new counts
VoteRead(v, mid, direction) ==
    LET r == cast_vote(find_vote_doc(votes, mid), v, direction)
    IN  /\ voteCalls[v].pc = "idle"
        /\ voteCalls[v].calls < MaxCalls
        /\ update' = Update(v, [vote |-> direction, msg_id |-> mid])
        /\ voteCalls' = [voteCalls EXCEPT ![v] =
              [pc |-> IF r.write THEN "write" ELSE "idle", calls |-> @.calls + 1,
               msg_id |-> mid, direction |-> direction, r |-> r]]
        /\ last' = IF r.write
                   THEN last
                   ELSE [op |-> "cb_vote", uid |-> v, out |-> <<>>, msg_id |-> mid,
                         direction |-> direction, changed |-> FALSE,
                         up |-> r.up, down |-> r.down]
        /\ UNCHANGED <<conv, sessions, nextId, clock, dbVars, admitCalls, idLimit, nextTok>>

\* the rest of cb_vote: update_one with the document computed from what was
\* read, then the new labels of the post's buttons
VoteWrite(v) ==
    LET c == voteCalls[v]
    IN  /\ c.pc = "write"
        /\ votes' = update_vote_doc(votes, c.msg_id, c.r.doc)
        /\ posts' = [posts EXCEPT ![c.msg_id].up = c.r.up, ![c.msg_id].down = c.r.down]
        /\ voteCalls' = [voteCalls EXCEPT ![v].pc = "idle"]
        /\ last' = [op |-> "cb_vote", uid |-> v, out |-> <<>>, msg_id |-> c.msg_id,
                    direction |-> c.direction, changed |-> TRUE,
                    up |-> c.r.up, down |-> c.r.down]
        /\ UNCHANGED <<conv, sessions, nextId, clock, update, banned, violations,
                       ratelimits, contexts, reviews, members, adminMsgs, submitted, rejected,
                       admitCalls, idLimit, nextTok>>

NextVoteRace ==
    \/ \E v \in Voters : \E mid \in 1..Len(posts) : \E dir \in Directions :
          VoteRead(v, mid, dir)
    \/ \E v \in Voters : VoteWrite(v)

SpecVoteRace == InitVoteRace /\ [][NextVoteRace]_vars

\* C2: when two different voters who have not voted before each call
\* cast_vote with "up" on the same item, once, and nobody else votes, then
\* after both calls have returned, whatever the order of their steps, the
\* item's up count is 2 and both voters are recorded with "up".
C2_NoLostUpdate ==
    \A a, b \in Voters : \A mid \in 1..Len(posts) :
        (/\ a # b
         /\ \A v \in Voters : voteCalls[v].pc = "idle"
         /\ \A v \in {a, b} :
               /\ voteCalls[v].calls = 1
               /\ voteCalls[v].direction = "up"
               /\ voteCalls[v].msg_id = mid
         /\ \A v \in Voters \ {a, b} : voteCalls[v].calls = 0)
        => (/\ mid \in DOMAIN votes
            /\ votes[mid].up = 2
            /\ Get(votes[mid].voters, a, None) = "up"
            /\ Get(votes[mid].voters, b, None) = "up")

(***************************************************************************)
(* SpecAdmitRace: 2 x MAX_REVIEWS_PER_HOUR calls of rate_limit_ok for one  *)
(* user at one time, each call a step up to the await of update_one and a  *)
(* step from there to the end.  The calls are alike, so the state holds    *)
(* the number of calls at each position.                                   *)
(***************************************************************************)
NumAdmitCalls == 2 * MAX_REVIEWS_PER_HOUR

AdmitCall(pc, ok, timestamps) == [pc |-> pc, ok |-> ok, timestamps |-> timestamps]

\* the bag b with one call moved from position c to position d
MoveCall(b, c, d) == (b (-) SetToBag({c})) (+) SetToBag({d})

InitAdmitRace ==
    /\ Fresh(0)
    /\ voteCalls = EmptyMap
    /\ admitCalls = [c \in {AdmitCall("start", FALSE, <<>>)} |-> NumAdmitCalls]

\* rate_limit_ok up to the await of update_one: find_one, the pruning, the
\* comparison with the ceiling, and the return of False
AdmitRead(uid) ==
    LET r == rate_limit_ok(find_timestamps(ratelimits, uid), clock)
        c == AdmitCall("start", FALSE, <<>>)
    IN  /\ BagIn(c, admitCalls)
        /\ admitCalls' = MoveCall(admitCalls, c,
              IF r.ok THEN AdmitCall("write", TRUE, r.timestamps)
                      ELSE AdmitCall("done", FALSE, <<>>))
        /\ UNCHANGED <<conv, sessions, nextId, clock, update, last, dbVars,
                       voteCalls, idLimit, nextTok>>

\* the rest of rate_limit_ok: update_one with the list made from what was
\* read, and the return of True
AdmitWrite(uid) ==
    \E c \in BagToSet(admitCalls) :
        /\ c.pc = "write"
        /\ ratelimits' = Put(ratelimits, uid, c.timestamps)
        /\ admitCalls' = MoveCall(admitCalls, c, AdmitCall("done", TRUE, <<>>))
        /\ UNCHANGED <<conv, sessions, nextId, clock, update, last, banned,
                       violations, contexts, reviews, members, posts, votes,
                       adminMsgs, submitted, rejected, voteCalls, idLimit, nextTok>>

NextAdmitRace == AdmitRead(Student) \/ AdmitWrite(Student)

SpecAdmitRace == InitAdmitRace /\ [][NextAdmitRace]_vars

\* the timestamps of a record that lie inside the window that ends now
InWindow(timestamps, now) == SelectSeq(timestamps, LAMBDA t : t > now - HOUR)

\* C3: of 2 x ceiling rate_limit_ok calls for one user inside one window,
\* whatever the order of their steps, exactly ceiling return True and the
\* rest return False, and the user's record never holds more than ceiling
\* timestamps inside the window.
C3_ExactlyCeilingAdmitted ==
    /\ Len(InWindow(find_timestamps(ratelimits, Student), clock)) <= MAX_REVIEWS_PER_HOUR
    /\ (\A c \in BagToSet(admitCalls) : c.pc = "done")
          => /\ CopiesIn(AdmitCall("done", TRUE, <<>>), admitCalls) = MAX_REVIEWS_PER_HOUR
             /\ CopiesIn(AdmitCall("done", FALSE, <<>>), admitCalls)
                   = NumAdmitCalls - MAX_REVIEWS_PER_HOUR

(***************************************************************************)
(* SpecThread: a published review and the follow-ups resumed from the deep *)
(* links of the thread, each submitted when its body is accepted.          *)
(***************************************************************************)
\* the keys of the resume entries: the tokens the deep links carry
TokenKeys == {k \in DOMAIN contexts : k.prefix = ""}

InitThread == Archive(1, 0, MaxPosts) /\ NoCalls

NextThread ==
    \/ CmdStart(TokenKeys)
    \/ Rating(RatingInputs)
    \/ HandlerContent({BodyShort, BodyOk}, {{}})
    \/ AdminButton(BOOLEAN, {TRUE}, {"duplicate"})

SpecThread == InitThread /\ [][NextThread]_vars

(***************************************************************************)
(***************************************************************************)
(* SpecOwn: the moderator's own chat with the bot.  The conversation is    *)
(* per user and no handler of it looks at ADMIN_ID, so the moderator       *)
(* resumes from a deep link and writes a follow-up as any user does, next  *)
(* to the student.                                                         *)
(***************************************************************************)
ModeratorWrites(ratings, bodies) ==
    \/ \E k \in TokenKeys :
          /\ update' = Update(ADMIN_ID, [command |-> "/start", arg |-> <<k>>])
          /\ cmd_start(ADMIN_ID, <<k>>)
    \/ \E r \in ratings :
          /\ conv[ADMIN_ID] = ST_RATING
          /\ update' = Update(ADMIN_ID, [rate |-> r])
          /\ cb_rating(ADMIN_ID, r)
    \/ \E text \in bodies : \E deliver \in Deliveries(ADMIN_ID, {{}}) :
          /\ conv[ADMIN_ID] = ST_CONTENT
          /\ update' = Update(ADMIN_ID, text)
          /\ handler_content(ADMIN_ID, text, deliver)

InitOwn == Archive(1, 0, MaxPosts) /\ NoCalls

NextOwn ==
    \/ ModeratorWrites({5}, {BodyProfane, BodyOk})
    \/ CmdStart(TokenKeys)
    \/ Rating({5})
    \/ HandlerContent({BodyProfane, BodyOk}, {{}})

SpecOwn == InitOwn /\ [][NextOwn]_vars

(* SpecSubmit: a session of committed drafts at the batch menu, after      *)
(* earlier submissions at time 0, submitted at any time of the clock.      *)
(***************************************************************************)
\* the session at the batch menu with n committed drafts, the first of them
\* the (k + 1)-th draft of the student: the subjects shown last are those of
\* the last draft's year
BatchSession(k, n) ==
    [Session EXCEPT
        !.drafts = [i \in 1..n |-> SampleDraft(k + i)],
        !.current_subjects =
            ACADEMIC_DB[SampleDraft(k + n).stream][SampleDraft(k + n).year]]

InitSubmit ==
    \E n \in 1..MaxBatch : \E k \in 0..MAX_REVIEWS_PER_HOUR :
        /\ ArchiveDb(0, k)
        /\ conv = [u \in Users |-> IF u = Student THEN ST_BATCH ELSE END]
        /\ sessions = [u \in {Student} |-> BatchSession(k, n)]
        /\ nextId = k + n + 1
        /\ idLimit = k + n
        /\ update = Update(Student, BodyOk)
        /\ last = Ran("handler_content", Student,
                      <<[to |-> Student, text |-> "SUCCESS_DRAFT_SAVED", n |-> n]>>)
        /\ NoCalls

NextSubmit ==
    \/ HandlerBatch({BTN_SUBMIT, BTN_MANAGE}, {{}, {1}})
    \/ ManageDrafts({[cmd |-> "dsubmit", idx |-> 0]}, {{}, {1}})
    \/ Tick

SpecSubmit == InitSubmit /\ [][NextSubmit]_vars

(***************************************************************************)
(* SpecModerate: the moderator's buttons on two pending reviews, with one  *)
(* review already published and voted on.                                  *)
(***************************************************************************)
InitModerate == Archive(1, 1, 2) /\ NoCalls

NextModerate ==
    \/ AdminButton(BOOLEAN, BOOLEAN, REJECT_CODES)
    \/ ForeignAdminButton
    \/ Vote({Voter3})

SpecModerate == InitModerate /\ [][NextModerate]_vars

(***************************************************************************)
(* What the claims speak of, stated without the operators of the handlers. *)
(***************************************************************************)
\* s begins with the characters of p
StartsWith(s, p) == Len(s) >= Len(p) /\ SubSeq(s, 1, Len(p)) = p

Drop(s, n) == SubSeq(s, n + 1, Len(s))

\* The text a reader of the channel sees for a text sent with
\* parse_mode=HTML: the entities are decoded.
RECURSIVE Rendered(_)
Rendered(s) ==
    IF s = <<>> THEN <<>>
    ELSE IF StartsWith(s, <<"&", "a", "m", "p", ";">>) THEN <<"&">> \o Rendered(Drop(s, 5))
    ELSE IF StartsWith(s, <<"&", "l", "t", ";">>) THEN <<"<">> \o Rendered(Drop(s, 4))
    ELSE IF StartsWith(s, <<"&", "g", "t", ";">>) THEN <<">">> \o Rendered(Drop(s, 4))
    ELSE IF StartsWith(s, <<"&", "q", "u", "o", "t", ";">>) THEN <<"\"">> \o Rendered(Drop(s, 6))
    ELSE IF StartsWith(s, <<"&", "#", "x", "2", "7", ";">>) THEN <<"'">> \o Rendered(Drop(s, 6))
    ELSE <<Head(s)>> \o Rendered(Tail(s))

\* the length of a text without its leading and trailing blanks
TrimmedLen(s) ==
    LET ink == {i \in 1..Len(s) : s[i] \notin Whitespace}
    IN  IF ink = {} THEN 0
        ELSE (CHOOSE i \in ink : \A j \in ink : j <= i)
             - (CHOOSE i \in ink : \A j \in ink : i <= j) + 1

\* some word of the text, whatever its case, is a forbidden word: a run of
\* word characters with no word character before or after it
HasForbiddenToken(s) ==
    \E w \in PROFANITY_SET : \E i \in 1..(Len(s) - Len(w) + 1) :
        /\ \A k \in 1..Len(w) : LowerChar(s[i + k - 1]) = w[k]
        /\ i = 1 \/ s[i - 1] \notin WordChars
        /\ i + Len(w) > Len(s) \/ s[i + Len(w)] \notin WordChars

\* the rate-limit rejections among the messages of a handler
Rejections(out) == {i \in 1..Len(out) : out[i].text = "ERR_RATE_LIMIT"}

Min(a, b) == IF a < b THEN a ELSE b

\* C4: for every draft that was submitted and then approved, the review
\* recorded with the post's message id holds the stream, year, subject,
\* teacher, rating and body the draft had in the session at submission, and
\* the post shows, to a reader of the channel, that subject, teacher, rating
\* and body.
C4_DraftRoundTrips ==
    /\ Len(reviews) = Len(posts)
    /\ \A i \in 1..Len(posts) :
          /\ posts[i].rev_id \in DOMAIN submitted
          /\ LET d == submitted[posts[i].rev_id]
                 r == reviews[i]
             IN  /\ r.msg_id = i
                 /\ r.stream = d.stream
                 /\ r.year = d.year
                 /\ r.subject = d.subject
                 /\ r.teacher = d.teacher
                 /\ r.rating = d.rating
                 /\ r.content = d.content
                 /\ Rendered(posts[i].subject) = d.subject
                 /\ Rendered(posts[i].teacher) = d.teacher
                 /\ posts[i].rating = d.rating
                 /\ Rendered(posts[i].content) = d.content

\* two drafts of different streams and ratings, with text that html.escape
\* rewrites, have been published
C4_Witness ==
    /\ Len(posts) = 2
    /\ submitted[posts[1].rev_id].stream # submitted[posts[2].rev_id].stream
    /\ submitted[posts[1].rev_id].rating # submitted[posts[2].rev_id].rating
    /\ posts[2].content # submitted[posts[2].rev_id].content
    /\ posts[2].teacher # submitted[posts[2].rev_id].teacher

\* the thread parent a post belongs to: its own id when it replies to nothing
ThreadOf(i) == IF posts[i].reply_to = NoParent THEN i ELSE posts[i].reply_to

\* C5: the resume entry of every published item names the item that began
\* its thread: the item itself when its draft had no thread parent, the
\* draft's thread parent otherwise, which is an item that replies to
\* nothing; and a draft resumed from a token carries the parent of that
\* token's entry (a banned user resumes nothing).
C5_ThreadParentStable ==
    /\ \A i \in 1..Len(posts) :
          /\ TokenKey(posts[i].deep_link) \in DOMAIN contexts
          /\ contexts[TokenKey(posts[i].deep_link)].parent_msg_id = ThreadOf(i)
          /\ ThreadOf(i) \in 1..Len(posts)
          /\ posts[ThreadOf(i)].reply_to = NoParent
    /\ (/\ last.op = "cmd_start"
        /\ update.from \notin banned
        /\ update.data.arg # <<>>
        /\ update.data.arg[1] \in TokenKeys)
       => /\ sessions[update.from].draft # <<>>
          /\ sessions[update.from].draft[1].is_additional
          /\ sessions[update.from].draft[1].parent_msg_id
                = contexts[update.data.arg[1]].parent_msg_id

\* a follow-up resumed from the token of a follow-up has been published
C5_Witness ==
    /\ Len(posts) = 3
    /\ posts[1].reply_to = NoParent
    /\ posts[2].reply_to = 1
    /\ posts[3].reply_to = 1
    /\ submitted[posts[3].rev_id].parent_msg_id = 1
    /\ contexts[TokenKey(posts[3].deep_link)].parent_msg_id = 1

\* C6: when a user whose record holds no timestamp inside the window
\* submits a batch of N committed drafts, min(N, ceiling) pending entries are
\* created, one for each of the first drafts; one rate-limit rejection is
\* sent to the user when N > ceiling and none otherwise; and the user has no
\* session when the submission has finished.
C6_BatchUnderCeiling ==
    [][(/\ conv[update'.from] \in {ST_BATCH, ST_MANAGE}
        /\ \/ last'.op = "handler_batch" /\ update'.data = BTN_SUBMIT
           \/ last'.op = "cb_manage_drafts" /\ update'.data.cmd = "dsubmit"
        /\ \A t \in 1..Len(find_timestamps(ratelimits, update'.from)) :
              find_timestamps(ratelimits, update'.from)[t] <= clock - HOUR)
       => LET u == update'.from
              ds == sessions[u].drafts
              admitted == Min(Len(ds), MAX_REVIEWS_PER_HOUR)
          IN  /\ DOMAIN contexts' \ DOMAIN contexts
                    = {PendingKey(ds[i].id) : i \in 1..admitted}
              /\ Cardinality(DOMAIN contexts' \ DOMAIN contexts) = admitted
              /\ Cardinality(Rejections(last'.out))
                    = IF Len(ds) > MAX_REVIEWS_PER_HOUR THEN 1 ELSE 0
              /\ u \notin DOMAIN sessions'
              /\ conv'[u] = END]_vars

\* a batch of more drafts than the ceiling has been submitted with no
\* timestamp retained: the record holds the ceiling's worth of new ones
C6_Witness ==
    /\ last.op = "handler_batch"
    /\ Rejections(last.out) # {}
    /\ clock = HOUR
    /\ find_timestamps(ratelimits, Student) = Rep(HOUR, MAX_REVIEWS_PER_HOUR)
    /\ Student \notin DOMAIN sessions

\* C7: in ST_CONTENT a body whose trimmed length is below 30 is rejected
\* whatever the content filter says of it: the state stays ST_CONTENT, the
\* draft in progress and the committed drafts are as they were, nothing is
\* submitted, and no violation is counted.
C7_ShortBodyRejected ==
    [][(/\ conv[update'.from] = ST_CONTENT
        /\ last'.op = "handler_content"
        /\ TrimmedLen(update'.data) < 30)
       => LET u == update'.from
          IN  /\ conv'[u] = ST_CONTENT
              /\ session(sessions', u) = session(sessions, u)
              /\ violations' = violations
              /\ banned' = banned
              /\ contexts' = contexts
              /\ last'.out = <<Msg(u, "ERR_SHORT_REVIEW")>>]_vars

\* a short body with a forbidden word has been answered, and no violation
\* has been counted
C7_Witness ==
    /\ last.op = "handler_content"
    /\ update.data = BodyShortProfane
    /\ HasForbiddenToken(update.data)
    /\ conv[Student] = ST_CONTENT
    /\ Student \notin DOMAIN violations

\* C8: in ST_CONTENT a body of trimmed length at least 30 that holds a
\* forbidden word is rejected, however long it is: the session is as it was
\* or is discarded (at the strike that bans), no committed draft and no
\* pending entry holds a body with a forbidden word, and nothing is submitted.
C8_ForbiddenBodyRejected ==
    [][(/\ conv[update'.from] = ST_CONTENT
        /\ last'.op = "handler_content"
        /\ TrimmedLen(update'.data) >= 30
        /\ HasForbiddenToken(update'.data))
       => LET u == update'.from
          IN  /\ conv'[u] \in {ST_CONTENT, END}
              /\ \/ u \notin DOMAIN sessions'
                 \/ session(sessions', u) = session(sessions, u)
              /\ \A i \in 1..Len(session(sessions', u).drafts) :
                    ~HasForbiddenToken(session(sessions', u).drafts[i].content)
              /\ contexts' = contexts
              /\ \A k \in DOMAIN contexts' : k.prefix = "pending_" =>
                    ~HasForbiddenToken(contexts'[k].content)
              /\ adminMsgs' = adminMsgs
              /\ submitted' = submitted]_vars

\* the longer body with a forbidden word has been answered with the second
\* strike, with a committed draft in the session
C8_Witness ==
    /\ last.op = "handler_content"
    /\ update.data = BodyProfaneLong
    /\ Get(violations, Student, 0) = 2
    /\ conv[Student] = ST_CONTENT
    /\ Student \in DOMAIN sessions
    /\ sessions[Student].drafts # <<>>

\* C9: _reject with a reason code of REJECT_MSG sends the submitter that
\* code's message and nothing else, publishes nothing, stores no context
\* entry, records no review and leaves the vote ledger as it was.
C9_RejectOnlyNotifies ==
    [][(/\ last'.op = "_reject"
        /\ update'.data.reason \in REJECT_CODES)
       => /\ last'.out = <<Msg(update'.data.uid, REJECT_MSG[update'.data.reason])>>
          /\ posts' = posts
          /\ contexts' = contexts
          /\ reviews' = reviews
          /\ votes' = votes
          /\ members' = members
          /\ banned' = banned]_vars

\* a review that is not published has been rejected as a duplicate, with
\* another one published and voted on
C9_Witness ==
    /\ last.op = "_reject"
    /\ last.reason = "duplicate"
    /\ last.out = <<Msg(Student, "Not Approved: similar review exists")>>
    /\ \A i \in 1..Len(posts) : posts[i].rev_id # last.rev_id
    /\ posts # <<>>
    /\ votes # EmptyMap

\* the other direction
Opposite(direction) == IF direction = "up" THEN "down" ELSE "up"

\* C11: a cast_vote call by a voter whose recorded choice is the opposite
\* direction takes exactly 1 from the old direction's count, adds exactly 1
\* to the new direction's count, leaves up + down as it was, records the new
\* choice for that voter only, and returns changed = TRUE with the new counts.
C11_SwitchMovesOneVote ==
    [][(/\ last'.op = "cb_vote"
        /\ update'.data.msg_id \in DOMAIN votes
        /\ Get(votes[update'.data.msg_id].voters, update'.from, None)
              = Opposite(update'.data.vote))
       => LET mid == update'.data.msg_id
              to == update'.data.vote
              from == Opposite(to)
              old == votes[mid]
              new == votes'[mid]
          IN  /\ last'.changed
              /\ new[from] = old[from] - 1
              /\ new[to] = old[to] + 1
              /\ new.up + new.down = old.up + old.down
              /\ DOMAIN new.voters = DOMAIN old.voters
              /\ new.voters[update'.from] = to
              /\ \A v \in DOMAIN old.voters \ {update'.from} :
                    new.voters[v] = old.voters[v]
              /\ last'.up = new.up
              /\ last'.down = new.down
              /\ posts'[mid].up = new.up
              /\ posts'[mid].down = new.down]_vars

\* a voter recorded with "down" has voted "up" while two others stay as
\* they were, one in each bucket
C11_Witness ==
    /\ last.op = "cb_vote"
    /\ last.prev = "down"
    /\ last.direction = "up"
    /\ last.changed
    /\ last.up = 2
    /\ last.down = 1
    /\ votes[last.msg_id].voters[last.uid] = "up"

(***************************************************************************)
(* SpecAdmit: rate_limit_ok calls of the users at any time of the clock,   *)
(* each call run from its find_one to its return before the next begins.   *)
(***************************************************************************)
InitAdmit == Fresh(0) /\ NoCalls

\* one rate_limit_ok(uid) call; the record of the call keeps what it read
Admit(uid) ==
    LET read == find_timestamps(ratelimits, uid)
        r == rate_limit_ok(read, clock)
    IN  /\ ratelimits' = IF r.write THEN Put(ratelimits, uid, r.timestamps) ELSE ratelimits
        /\ last' = [op |-> "rate_limit_ok", uid |-> uid, out |-> <<>>, ok |-> r.ok,
                    read |-> read, now |-> clock]
        /\ UNCHANGED <<conv, sessions, nextId, clock, update, banned, violations,
                       contexts, reviews, members, posts, votes, adminMsgs, submitted, rejected,
                       raceVars>>

NextAdmit ==
    \/ \E u \in Users : Admit(u)
    \/ Tick

SpecAdmit == InitAdmit /\ [][NextAdmit]_vars

\* C12: a rate_limit_ok call returns True exactly when fewer than the
\* ceiling of the user's recorded timestamps lie inside the window that ends
\* now; a call that returns True leaves as the user's record the timestamps
\* inside the window followed by now, once; a call that returns False writes
\* nothing; and no other user's record changes.
C12_AdmitIffBelowCeiling ==
    [][(/\ last'.op = "rate_limit_ok"
        /\ clock' = clock)
       => LET u == last'.uid
              inside == InWindow(find_timestamps(ratelimits, u), clock)
          IN  /\ last'.ok <=> Len(inside) < MAX_REVIEWS_PER_HOUR
              /\ last'.ok => ratelimits' = Put(ratelimits, u, Append(inside, clock))
              /\ ~last'.ok => ratelimits' = ratelimits]_vars

\* a call that read a record with the ceiling's worth of timestamps, every
\* one of them outside the window, has returned True: the record holds now only
C12_Witness ==
    /\ last.op = "rate_limit_ok"
    /\ last.ok
    /\ Len(last.read) = MAX_REVIEWS_PER_HOUR
    /\ last.now = clock
    /\ ratelimits[last.uid] = <<clock>>

\* the messages to the moderator among the messages of a handler, in order
ReviewsSent(out) == SelectSeq(out, LAMBDA m : m.text = "REVIEW")

\* C13: a submission makes one admission check for each committed draft, in
\* the order of the list, until one is denied: with j the number of drafts
\* the window has room for, the pending entries and the moderator messages
\* are those of the first j drafts, in order, and the record gains j
\* timestamps; when a draft is denied the user gets one rejection, after
\* the moderator messages, whose number is the number of moderator messages
\* that were delivered; when none is denied the user gets no rejection.
C13_StopsAtFirstDenial ==
    [][(/\ conv[update'.from] \in {ST_BATCH, ST_MANAGE}
        /\ \/ last'.op = "handler_batch" /\ update'.data = BTN_SUBMIT
           \/ last'.op = "cb_manage_drafts" /\ update'.data.cmd = "dsubmit")
       => LET u == update'.from
              ds == sessions[u].drafts
              inside == InWindow(find_timestamps(ratelimits, u), clock)
              j == Min(Len(ds), Max0(MAX_REVIEWS_PER_HOUR - Len(inside)))
              sent == ReviewsSent(last'.out)
              delivered == {i \in 1..Len(sent) : sent[i].ok}
          IN  /\ DOMAIN contexts' \ DOMAIN contexts = {PendingKey(ds[i].id) : i \in 1..j}
              /\ Len(sent) = j
              /\ \A i \in 1..j : sent[i].rev_id = ds[i].id
              /\ DOMAIN adminMsgs' \ DOMAIN adminMsgs = {<<u, ds[i].id>> : i \in delivered}
              /\ IF j = 0
                 THEN ratelimits' = ratelimits
                 ELSE ratelimits' = Put(ratelimits, u, inside \o Rep(clock, j))
              /\ IF j < Len(ds)
                 THEN /\ Rejections(last'.out) = {Len(last'.out) - 1}
                      /\ last'.out[Len(last'.out) - 1].n = Cardinality(delivered)
                      /\ \A i \in 1..Len(last'.out) :
                            last'.out[i].text = "REVIEW" => i < Len(last'.out) - 1
                 ELSE Rejections(last'.out) = {}]_vars

\* the third draft of a batch has been denied after two were admitted, one
\* of them not delivered to the moderator: the user is told of one
C13_Witness ==
    /\ last.op = "handler_batch"
    /\ Len(ReviewsSent(last.out)) = 2
    /\ ~ReviewsSent(last.out)[1].ok
    /\ \E i \in Rejections(last.out) : last.out[i].n = 1
    /\ Cardinality({k \in DOMAIN contexts : k.prefix = "pending_"}) = MAX_REVIEWS_PER_HOUR
    /\ Student \notin DOMAIN sessions

(***************************************************************************)
(* SpecDesk: the moderator's buttons on two pending reviews, the student's *)
(* and the moderator's own, while entries of the context store get lost.   *)
(* No code of the bot deletes a context entry: an entry is absent when the *)
(* collection lost it outside the bot (a cleared or replaced database),    *)
(* while the moderator's messages and their buttons stay in the chat.      *)
(***************************************************************************)
\* the submitter of the i-th draft: the student, then the moderator
Author(i) == IF i = 1 THEN Student ELSE ADMIN_ID

\* The state after the student and then the moderator have each submitted
\* one review at time 0.
InitDesk ==
    /\ conv = [u \in Users |-> END]
    /\ sessions = EmptyMap
    /\ nextId = 3
    /\ nextTok = FirstToken
    /\ idLimit = 2
    /\ banned = {}
    /\ violations = EmptyMap
    /\ ratelimits = [u \in Users |-> <<0>>]
    /\ contexts = [k \in {PendingKey(1), PendingKey(2)} |->
                      PendingData(SampleDraft(k.id), Author(k.id))]
    /\ reviews = <<>>
    /\ members = {}
    /\ posts = <<>>
    /\ votes = EmptyMap
    /\ adminMsgs = [k \in {<<Author(1), 1>>, <<Author(2), 2>>} |-> "admin"]
    /\ clock = 0
    /\ update = Update(ADMIN_ID, BTN_SUBMIT)
    /\ last = Ran("handler_batch", ADMIN_ID,
                  <<Msg(ADMIN_ID, "Transmitting"),
                    AdminText(SampleDraft(2), ADMIN_ID, TRUE),
                    Msg(ADMIN_ID, "SUCCESS_SUBMITTED")>>)
    /\ submitted = [i \in 1..2 |-> SampleDraft(i)]
    /\ rejected = {}
    /\ NoCalls

\* the contexts collection loses an entry; no handler runs
ContextLost ==
    \E k \in DOMAIN contexts :
        /\ contexts' = Pop(contexts, k)
        /\ update' = Update(0, None)
        /\ last' = Ran("none", 0, <<>>)
        /\ UNCHANGED <<conv, sessions, nextId, clock, banned, violations, ratelimits,
                       reviews, members, posts, votes, adminMsgs, submitted, rejected, raceVars>>

\* the ban button of a moderator message, pressed when the edit of the
\* message that follows the ban fails
BanButtonEditFails ==
    \E key \in DOMAIN adminMsgs :
        \E data \in {d \in Buttons(key, adminMsgs[key], {}) : d.action = "ban"} :
            update' = Update(ADMIN_ID, data) /\ cb_admin(ADMIN_ID, data, TRUE, FALSE)

NextDesk ==
    \/ AdminButton(BOOLEAN, {TRUE}, {"policy"})
    \/ BanButtonEditFails
    \/ ForeignAdminButton
    \/ ContextLost

SpecDesk == InitDesk /\ [][NextDesk]_vars

\* C14: _approve for a review whose pending entry is not in the context
\* store tells the moderator that the pending data was not found and does
\* nothing else: no post, no context entry, no review record, no new
\* member, and the moderator's message keeps its buttons.
C14_ApproveWithoutEntry ==
    [][(/\ update'.from = ADMIN_ID
        /\ last'.op = "_approve"
        /\ PendingKey(update'.data.rev_id) \notin DOMAIN contexts)
       => /\ last'.out = <<Msg(ADMIN_ID, "Pending data not found")>>
          /\ posts' = posts
          /\ contexts' = contexts
          /\ reviews' = reviews
          /\ members' = members
          /\ adminMsgs' = adminMsgs
          /\ votes' = votes
          /\ banned' = banned
          /\ nextTok' = nextTok]_vars

\* the moderator has pressed approve on the student's review after its
\* pending entry was lost: nothing is published and nobody is a member
C14_Witness ==
    /\ last.op = "_approve"
    /\ last.out = <<Msg(ADMIN_ID, "Pending data not found")>>
    /\ update.data.uid = Student
    /\ PendingKey(update.data.rev_id) \notin DOMAIN contexts
    /\ adminMsgs[<<update.data.uid, update.data.rev_id>>] = "admin"
    /\ posts = <<>>
    /\ members = {}

\* C16: the ban button pressed by the moderator adds its target to the
\* banned set, whether or not the edit of the moderator's message succeeds,
\* except when the target is ADMIN_ID: then the banned set stays as it was;
\* pressed by anybody else, it changes nothing.
C16_BanExceptModerator ==
    [][(/\ last'.op = "cb_admin"
        /\ update'.data.action = "ban")
       => /\ banned' = IF update'.from = ADMIN_ID /\ update'.data.uid # ADMIN_ID
                       THEN banned \cup {update'.data.uid}
                       ELSE banned
          /\ (update'.from = ADMIN_ID /\ update'.data.uid = ADMIN_ID)
                => last'.out = <<Msg(ADMIN_ID, "Cannot ban yourself")>>]_vars

\* the moderator has banned the student and then pressed the ban button of
\* the moderator's own review
C16_Witness ==
    /\ last.op = "cb_admin"
    /\ update.from = ADMIN_ID
    /\ update.data.action = "ban"
    /\ update.data.uid = ADMIN_ID
    /\ banned = {Student}

\* C15: when _approve publishes a draft that carries no thread parent, the
\* post replies to nothing and the resume entry stored under the post's
\* token has the post's own message id as parent; when the draft carries a
\* thread parent, the post is sent as a reply to that message and the
\* resume entry has that same id as parent.  One entry is stored.
C15_ResumeParent ==
    [][(/\ last'.op = "_approve"
        /\ "msg_id" \in DOMAIN last')
       => LET d == contexts[PendingKey(update'.data.rev_id)]
              sent == last'.msg_id
              key == TokenKey(posts'[sent].deep_link)
          IN  /\ sent = Len(posts) + 1
              /\ Len(posts') = sent
              /\ DOMAIN contexts' \ DOMAIN contexts = {key}
              /\ IF d.parent_msg_id = NoParent
                 THEN /\ posts'[sent].reply_to = NoParent
                      /\ contexts'[key].parent_msg_id = sent
                 ELSE /\ posts'[sent].reply_to = d.parent_msg_id
                      /\ contexts'[key].parent_msg_id = d.parent_msg_id]_vars

\* a review written from the start and a follow-up resumed from its token
\* have both been approved: both resume entries name the first post
C15_Witness ==
    /\ last.op = "_approve"
    /\ "msg_id" \in DOMAIN last
    /\ last.msg_id = 2
    /\ Len(posts) = 2
    /\ submitted[posts[1].rev_id].parent_msg_id = NoParent
    /\ submitted[posts[2].rev_id].parent_msg_id = 1
    /\ posts[2].reply_to = 1
    /\ contexts[TokenKey(posts[1].deep_link)].parent_msg_id = 1
    /\ contexts[TokenKey(posts[2].deep_link)].parent_msg_id = 1

\* C17: when a banned user sends /start, with or without a token, or the
\* "Write a Review" text, the user is told of the ban, the conversation is
\* Idle afterwards, the session store is as it was (no session is created
\* or replaced) and no draft id is drawn.
C17_BannedAtEntry ==
    [][(/\ last'.op \in {"cmd_start", "handler_start_review"}
        /\ update'.from \in banned)
       => LET u == update'.from
          IN  /\ conv'[u] = END
              /\ sessions' = sessions
              /\ nextId' = nextId
              /\ contexts' = contexts
              /\ last'.out = <<Msg(u, "ERR_BANNED")>>]_vars

\* the student, banned by the moderator, has sent /start with the token of
\* the student's published review
C17_Witness ==
    /\ last.op = "cmd_start"
    /\ update.from \in banned
    /\ update.data.arg = <<TokenKey(FirstToken)>>
    /\ TokenKey(FirstToken) \in DOMAIN contexts
    /\ last.out = <<Msg(update.from, "ERR_BANNED")>>
    /\ conv[update.from] = END
    /\ update.from \notin DOMAIN sessions

\* C18: in ST_CONTENT every body that reaches the content filter and holds
\* a forbidden word adds exactly one to the sender's violation count and to
\* nobody else's; when the new count is MAX_PROFANITY_STRIKES or more the
\* sender is added to the banned set, the sender's session is removed and
\* the conversation ends; below that nobody is banned.
C18_StrikeCountsAndBans ==
    [][(/\ conv[update'.from] = ST_CONTENT
        /\ last'.op = "handler_content"
        /\ TrimmedLen(update'.data) >= MIN_REVIEW_LEN
        /\ HasForbiddenToken(update'.data))
       => LET u == update'.from
              count == Get(violations, u, 0) + 1
          IN  /\ violations' = Put(violations, u, count)
              /\ IF count >= MAX_PROFANITY_STRIKES
                 THEN /\ banned' = banned \cup {u}
                      /\ u \notin DOMAIN sessions'
                      /\ conv'[u] = END
                 ELSE banned' = banned]_vars

\* the third strike: the student is banned, without session, and Idle
C18_Witness ==
    /\ last.op = "handler_content"
    /\ HasForbiddenToken(update.data)
    /\ Get(violations, Student, 0) = MAX_PROFANITY_STRIKES
    /\ Student \in banned
    /\ Student \notin DOMAIN sessions
    /\ conv[Student] = END

\* C19: in ST_CONTENT a body that holds a forbidden word and leaves the
\* strike count below MAX_PROFANITY_STRIKES keeps the conversation in
\* ST_CONTENT with the draft in progress as it was, the rejected text not
\* its body, and the committed drafts as they were; the user is told the
\* strike count.
C19_StrikeKeepsDraft ==
    [][(/\ conv[update'.from] = ST_CONTENT
        /\ last'.op = "handler_content"
        /\ TrimmedLen(update'.data) >= MIN_REVIEW_LEN
        /\ HasForbiddenToken(update'.data)
        /\ Get(violations, update'.from, 0) + 1 < MAX_PROFANITY_STRIKES)
       => LET u == update'.from
              before == session(sessions, u)
          IN  /\ conv'[u] = ST_CONTENT
              /\ u \in DOMAIN sessions'
              /\ sessions'[u].draft = before.draft
              /\ sessions'[u].drafts = before.drafts
              /\ \A i \in 1..Len(sessions'[u].draft) :
                    ~HasForbiddenToken(sessions'[u].draft[i].content)
              /\ last'.out = <<[to |-> u, text |-> "ERR_PROFANITY strike",
                                strikes |-> Get(violations, u, 0) + 1]>>]_vars

\* a committed draft taken back for editing has been given a body with a
\* forbidden word: first strike, and the draft keeps the body it had
C19_Witness ==
    /\ last.op = "handler_content"
    /\ update.data = BodyProfane
    /\ Get(violations, Student, 0) = 1
    /\ conv[Student] = ST_CONTENT
    /\ Student \in DOMAIN sessions
    /\ sessions[Student].draft # <<>>
    /\ sessions[Student].draft[1].content = Strip(BodyOk)

(***************************************************************************)
(* SpecFollowUp: the student's conversation with every way into it, the    *)
(* deep link of a published review among them.                             *)
(***************************************************************************)
InitFollowUp == Archive(1, 0, MaxConvIds + 2) /\ NoCalls

NextFollowUp ==
    \/ CmdStart(StartKeys)
    \/ StartReview
    \/ HandlerStream({StreamLaw})
    \/ HandlerYear({YearLaw})
    \/ SubjectSelect
    \/ HandlerTeacher({NameOk})
    \/ Rating({5})
    \/ HandlerContent({BodyShort, BodyOk, BodyPadded, BodyProfane}, {{}})
    \/ HandlerBatch({BTN_SUBMIT, BTN_MANAGE, BTN_ADD_MORE}, {{}})
    \/ ManageDrafts(ManageData, {{}})
    \/ CancelCommand

SpecFollowUp == InitFollowUp /\ [][NextFollowUp]_vars

\* C20: when handler_content accepts the body of a draft resumed from a
\* deep link (is_additional), the submission runs in the same step: the
\* conversation ends without ST_BATCH, the session is removed, and what is
\* submitted is that draft and no other (the session held no committed
\* draft; the one pending entry and the one moderator message are the
\* draft's).  And no session keeps a committed follow-up for a later batch.
C20_FollowUpSubmitsAlone ==
    [][/\ (/\ conv[update'.from] = ST_CONTENT
           /\ last'.op = "handler_content"
           /\ update'.from \in DOMAIN sessions
           /\ sessions[update'.from].draft # <<>>
           /\ sessions[update'.from].draft[1].is_additional
           /\ TrimmedLen(update'.data) >= MIN_REVIEW_LEN
           /\ ~HasForbiddenToken(update'.data))
          => LET u == update'.from
                 d == sessions[u].draft[1]
                 room == Len(InWindow(find_timestamps(ratelimits, u), clock))
                            < MAX_REVIEWS_PER_HOUR
                 sent == ReviewsSent(last'.out)
             IN  /\ conv'[u] = END
                 /\ u \notin DOMAIN sessions'
                 /\ sessions[u].drafts = <<>>
                 /\ last'.out[1] = Msg(u, "Transmitting")
                 /\ Len(sent) = IF room THEN 1 ELSE 0
                 /\ \A i \in 1..Len(sent) : sent[i].rev_id = d.id /\ sent[i].thread
                 /\ DOMAIN contexts' \ DOMAIN contexts
                       = IF room THEN {PendingKey(d.id)} ELSE {}
                 /\ room => /\ contexts'[PendingKey(d.id)].is_additional
                             /\ contexts'[PendingKey(d.id)].content = Strip(update'.data)
       /\ \A u \in DOMAIN sessions' : \A i \in 1..Len(sessions'[u].drafts) :
              ~sessions'[u].drafts[i].is_additional]_vars

\* the student has begun a draft, then opened the deep link of the
\* published review and sent the follow-up's body: the follow-up is
\* pending as a reply to the first post, the other draft was never submitted
C20_Witness ==
    /\ last.op = "handler_content"
    /\ Len(ReviewsSent(last.out)) = 1
    /\ ReviewsSent(last.out)[1].thread
    /\ ReviewsSent(last.out)[1].rev_id = 3
    /\ PendingKey(3) \in DOMAIN contexts
    /\ PendingKey(2) \notin DOMAIN contexts
    /\ contexts[PendingKey(3)].parent_msg_id = 1
    /\ Student \notin DOMAIN sessions

(***************************************************************************)
(* C21: editing the committed draft at a valid index takes it out of the   *)
(* committed list, makes it the active draft and moves to ST_CONTENT; the  *)
(* active draft then stays as it is until a body is accepted, and the      *)
(* draft committed again differs from it in its content only: id, stream,  *)
(* year, subject, teacher, rating, is_additional and parent_msg_id are the *)
(* ones it had before the edit.                                            *)
(***************************************************************************)
C21_EditRewritesBodyOnly ==
    [][LET u == update'.from
       IN  /\ (/\ last'.op = "cb_manage_drafts"
               /\ update'.data.cmd = "dedit"
               /\ u \in DOMAIN sessions
               /\ update'.data.idx < Len(sessions[u].drafts))
              => /\ sessions'[u].draft = <<sessions[u].drafts[update'.data.idx + 1]>>
                 /\ sessions'[u].drafts =
                       RemoveAt(sessions[u].drafts, update'.data.idx)
                 /\ conv'[u] = ST_CONTENT
           /\ (/\ last'.op = "handler_content"
               /\ u \in DOMAIN sessions
               /\ sessions[u].draft # <<>>
               /\ sessions[u].draft[1].content # <<>>)
              => \/ /\ conv'[u] = ST_CONTENT
                    /\ sessions'[u].draft = sessions[u].draft
                    /\ sessions'[u].drafts = sessions[u].drafts
                 \/ /\ conv'[u] = ST_BATCH
                    /\ sessions'[u].draft = <<>>
                    /\ sessions'[u].drafts =
                          Append(sessions[u].drafts,
                                 [sessions[u].draft[1] EXCEPT
                                     !.content = Strip(update'.data)])
                 \/ /\ conv'[u] = END
                    /\ u \in banned'
                    /\ u \notin DOMAIN sessions'
      ]_vars

\* an edited first draft was committed again, behind the draft made after it
C21_Witness ==
    /\ last.op = "handler_content"
    /\ conv[Student] = ST_BATCH
    /\ Student \in DOMAIN sessions
    /\ Len(sessions[Student].drafts) = 2
    /\ sessions[Student].drafts[1].id > sessions[Student].drafts[2].id
    /\ sessions[Student].drafts[2].teacher # <<>>
    /\ sessions[Student].drafts[2].rating = 5

(***************************************************************************)
(* C22: /start with a token, sent by a user who is not banned: when the    *)
(* context store holds the token's entry, the user's session is replaced   *)
(* by a new one with no committed draft, whose draft in progress has the   *)
(* entry's stream, year, subject, teacher and parent_msg_id, is_additional *)
(* set, no rating and no content, and the conversation goes to ST_RATING;  *)
(* when the store has no such entry the conversation ends and the new      *)
(* session has no draft at all.                                            *)
(***************************************************************************)
C22_TokenStartSeedsFollowUp ==
    [][(/\ last'.op = "cmd_start"
        /\ update'.from \notin banned
        /\ update'.data.arg # <<>>)
       => LET u == update'.from
              key == update'.data.arg[1]
          IN  IF key \in DOMAIN contexts
              THEN /\ conv'[u] = ST_RATING
                   /\ sessions'[u].drafts = <<>>
                   /\ Len(sessions'[u].draft) = 1
                   /\ LET d == sessions'[u].draft[1]
                          data == contexts[key]
                      IN  /\ d.stream = data.stream
                          /\ d.year = data.year
                          /\ d.subject = data.subject
                          /\ d.teacher = data.teacher
                          /\ d.parent_msg_id = data.parent_msg_id
                          /\ d.is_additional
                          /\ d.rating = 0
                          /\ d.content = <<>>
                          /\ d.id = nextId
              ELSE /\ conv'[u] = END
                   /\ sessions'[u] = Session
                   /\ nextId' = nextId]_vars

\* the student, who had begun another review after one was published, has
\* sent /start with the token of the published review
C22_Witness ==
    /\ last.op = "cmd_start"
    /\ update.data.arg = <<TokenKey(FirstToken)>>
    /\ conv[Student] = ST_RATING
    /\ Student \in DOMAIN sessions
    /\ sessions[Student].drafts = <<>>
    /\ sessions[Student].draft # <<>>
    /\ sessions[Student].draft[1].is_additional
    /\ sessions[Student].draft[1].parent_msg_id = 1
    /\ sessions[Student].draft[1].id > 2

\* a text that its state's handler takes for neither a choice nor Cancel
Misshapen(state, sess, text) ==
    CASE state = ST_STREAM ->
            text # BTN_CANCEL /\ text \notin DOMAIN ACADEMIC_DB
      [] state = ST_YEAR ->
            /\ text # BTN_CANCEL
            /\ sess.draft # <<>>
            /\ \/ sess.draft[1].stream \notin DOMAIN ACADEMIC_DB
               \/ text \notin DOMAIN ACADEMIC_DB[sess.draft[1].stream]
      [] state = ST_TEACHER -> TrimmedLen(text) < MIN_NAME_LEN
      [] state = ST_BATCH -> text \notin {BTN_SUBMIT, BTN_MANAGE, BTN_ADD_MORE}
      [] OTHER -> FALSE

(***************************************************************************)
(* C23: a text that is not of the shape its state expects leaves the       *)
(* sender's conversation state, draft in progress and committed drafts as  *)
(* they were, and touches no stored data: in ST_STREAM a text that is no   *)
(* stream of ACADEMIC_DB, in ST_YEAR a text that is no year of the draft's *)
(* stream (the Cancel button of these two keyboards is an input they       *)
(* expect), in ST_TEACHER a name of fewer than MIN_NAME_LEN characters     *)
(* once trimmed, in ST_BATCH a text that is none of the three menu         *)
(* buttons.                                                                *)
(***************************************************************************)
C23_MisshapenInputChangesNothing ==
    [][(/\ last'.op \in {"handler_stream", "handler_year", "handler_teacher",
                         "handler_batch"}
        /\ conv[update'.from] \in {ST_STREAM, ST_YEAR, ST_TEACHER, ST_BATCH}
        /\ Misshapen(conv[update'.from], session(sessions, update'.from),
                     update'.data))
       => LET u == update'.from
          IN  /\ conv'[u] = conv[u]
              /\ session(sessions', u).draft = session(sessions, u).draft
              /\ session(sessions', u).drafts = session(sessions, u).drafts
              /\ nextId' = nextId
              /\ UNCHANGED dbVars]_vars

\* with one draft committed and a second begun in the same stream, the
\* student has answered the year prompt with a year of another stream
C23_Witness ==
    /\ last.op = "handler_year"
    /\ last.out = <<Msg(Student, "ERR_INVALID")>>
    /\ update.data = YearMed
    /\ conv[Student] = ST_YEAR
    /\ Student \in DOMAIN sessions
    /\ Len(sessions[Student].drafts) = 1
    /\ sessions[Student].draft # <<>>
    /\ sessions[Student].draft[1].stream = StreamLaw
    /\ sessions[Student].draft[1].year = <<>>

(***************************************************************************)
(* SpecCancel: the conversation with one accepted sample in each state     *)
(* and every cancel event the user can send: the /cancel command and the   *)
(* Cancel text in every state, the subject keyboard's Cancel button.  A    *)
(* text goes to the handler of the state when the state has one for texts, *)
(* and to the fallbacks otherwise.                                         *)
(***************************************************************************)
NextCancel ==
    \/ StartReview
    \/ HandlerStream({BTN_CANCEL, StreamLaw})
    \/ HandlerYear({BTN_CANCEL, YearLaw})
    \/ SubjectSelect
    \/ ConvCancel
    \/ HandlerTeacher({BTN_CANCEL, NameOk})
    \/ Rating({5})
    \/ HandlerContent({BTN_CANCEL, BodyOk}, {{}})
    \/ HandlerBatch({BTN_CANCEL, BTN_MANAGE, BTN_ADD_MORE}, {{}})
    \/ ManageDrafts(ManageData, {{}})
    \/ CancelCommand
    \/ CancelText

SpecCancel == InitConv /\ [][NextCancel]_vars

(***************************************************************************)
(* SpecLost: the conversation of SpecCancel when a reply of do_cancel may  *)
(* fail to be sent.                                                        *)
(***************************************************************************)
NextLost == NextCancel \/ CancelUnsent

SpecLost == InitConv /\ [][NextLost]_vars

(***************************************************************************)
(* C24: in every conversation state a cancel event of the user (the        *)
(* /cancel command, the text of the Cancel button, or the Cancel button of *)
(* the subject keyboard, each in the states where the user can send it)    *)
(* removes the user's session and ends the conversation.                   *)
(***************************************************************************)
C24_CancelEndsConversation ==
    [][(/\ conv[update'.from] # END
        /\ \/ last'.op = "do_cancel"
           \/ /\ last'.op \in {"handler_stream", "handler_year", "handler_teacher",
                               "handler_content", "handler_batch"}
              /\ update'.data = BTN_CANCEL
           \/ last'.op = "cb_conv_cancel")
       => /\ conv'[update'.from] = END
          /\ update'.from \notin DOMAIN sessions']_vars

\* C25: callback data of a moderator button (app, rej, rr, rback, ban) sent
\* by anybody other than ADMIN_ID changes nothing: no post, no ban, no
\* context entry, no review or member recorded, no moderator message edited,
\* no session or conversation touched; the only output is the "Admin only"
\* alert shown to the sender.
C25_ForeignButtonChangesNothing ==
    [][(/\ update'.from # ADMIN_ID
        /\ "action" \in DOMAIN update'.data)
       => /\ UNCHANGED <<conv, sessions, nextId, clock, dbVars>>
          /\ last'.op = "cb_admin"
          /\ last'.out = <<Msg(update'.from, "Admin only")>>]_vars

\* the student has pressed the approve button of the student's own pending
\* review
C25_Witness ==
    /\ last.op = "cb_admin"
    /\ update.from = Student
    /\ update.data.action = "app"
    /\ update.data.uid = Student
    /\ PendingKey(update.data.rev_id) \in DOMAIN contexts
    /\ \A i \in 1..Len(posts) : posts[i].rev_id # update.data.rev_id
    /\ last.out = <<Msg(Student, "Admin only")>>

\* C26: when a send to the moderator fails during a submission, the loop
\* goes on: every draft behind the failed one still has its admission check
\* made, so that each gets its pending entry and its message to the
\* moderator while the window has room and the first one denied gets the
\* rejection; the record gains one timestamp for every draft admitted, the
\* failed one included; the session is removed, the user is told the
\* submission is done and the conversation ends.
C26_FailedSendKeepsBatchGoing ==
    [][(/\ conv[update'.from] \in {ST_BATCH, ST_MANAGE}
        /\ \/ last'.op = "handler_batch" /\ update'.data = BTN_SUBMIT
           \/ last'.op = "cb_manage_drafts" /\ update'.data.cmd = "dsubmit"
        /\ \E m \in 1..Len(ReviewsSent(last'.out)) : ~ReviewsSent(last'.out)[m].ok)
       => LET u == update'.from
              ds == sessions[u].drafts
              sent == ReviewsSent(last'.out)
              room == MAX_REVIEWS_PER_HOUR
                         - Len(InWindow(find_timestamps(ratelimits, u), clock))
          IN  /\ \A m \in 1..Len(sent) : ~sent[m].ok =>
                    \A k \in (m + 1)..Len(ds) :
                       IF k <= room
                       THEN /\ PendingKey(ds[k].id) \in DOMAIN contexts'
                            /\ contexts'[PendingKey(ds[k].id)].content = ds[k].content
                            /\ contexts'[PendingKey(ds[k].id)].user_id = u
                            /\ k <= Len(sent)
                            /\ sent[k].rev_id = ds[k].id
                            /\ sent[k].ok => <<u, ds[k].id>> \in DOMAIN adminMsgs'
                       ELSE /\ PendingKey(ds[k].id) \notin DOMAIN contexts'
                            /\ Rejections(last'.out) # {}
              /\ Len(ratelimits'[u]) =
                    Len(InWindow(find_timestamps(ratelimits, u), clock))
                       + Min(Len(ds), room)
              /\ u \notin DOMAIN sessions'
              /\ conv'[u] = END
              /\ last'.out[Len(last'.out)] = Msg(u, "SUCCESS_SUBMITTED")]_vars

\* a batch of three has been submitted: the first draft did not reach the
\* moderator, the second and the third did
C26_Witness ==
    /\ last.op \in {"handler_batch", "cb_manage_drafts"}
    /\ Len(ReviewsSent(last.out)) = 3
    /\ ~ReviewsSent(last.out)[1].ok
    /\ ReviewsSent(last.out)[2].ok
    /\ ReviewsSent(last.out)[3].ok
    /\ <<Student, ReviewsSent(last.out)[1].rev_id>> \notin DOMAIN adminMsgs
    /\ <<Student, ReviewsSent(last.out)[3].rev_id>> \in DOMAIN adminMsgs
    /\ PendingKey(ReviewsSent(last.out)[3].rev_id) \in DOMAIN contexts
    /\ Student \notin DOMAIN sessions
    /\ conv[Student] = END

(***************************************************************************)
(* SpecNotify: follow-ups to a published review, each approved while the   *)
(* invite link or the message to the submitter may fail.                   *)
(***************************************************************************)
\* the moderator's approve button, with the outcomes of the calls made for
\* the submitter
ApproveButton(inviting, notifying, editing) ==
    \E key \in DOMAIN adminMsgs :
        \E inviteOk \in inviting, notifyOk \in notifying, editOk \in editing :
            /\ adminMsgs[key] = "admin"
            /\ update' = Update(ADMIN_ID, [action |-> "app", uid |-> key[1],
                                            rev_id |-> key[2], reason |-> None])
            /\ approve_with(key[1], key[2], TRUE, inviteOk, notifyOk, editOk)

InitNotify == Archive(1, 0, MaxPosts) /\ NoCalls

NextNotify ==
    \/ CmdStart(TokenKeys)
    \/ Rating(RatingInputs)
    \/ HandlerContent({BodyShort, BodyOk}, {{}})
    \/ ApproveButton(BOOLEAN, BOOLEAN, BOOLEAN)

SpecNotify == InitNotify /\ [][NextNotify]_vars

\* C27: when the invite link cannot be created or the message to the
\* submitter cannot be sent during _approve, the approval is complete all
\* the same: the post is in the channel, the resume entry is stored under
\* the post's token, the review is recorded with the post's message id, the
\* submitter is among the approved members and the moderator's message is
\* edited; a submitter who can be reached without a link is sent the
\* message without it.
C27_ApprovalSurvivesNotifyFailure ==
    [][(/\ last'.op = "_approve"
        /\ "notified" \in DOMAIN last'
        /\ (~last'.notified \/ ~last'.invited))
       => LET uid == update'.data.uid
              rev_id == update'.data.rev_id
              sent == Len(posts) + 1
              d == contexts[PendingKey(rev_id)]
          IN  /\ posts' = Append(posts, ChannelPost(d, rev_id, nextTok))
              /\ DOMAIN contexts' \ DOMAIN contexts = {TokenKey(posts'[sent].deep_link)}
              /\ contexts'[TokenKey(posts'[sent].deep_link)].teacher = d.teacher
              /\ reviews' = Append(reviews, ReviewDoc(d, sent, clock))
              /\ members' = members \cup {uid}
              /\ last'.edited => adminMsgs'[<<uid, rev_id>>] = "none"
              /\ {m \in 1..Len(last'.out) : last'.out[m].text = "approved"}
                    = IF last'.notified THEN {2} ELSE {}
              /\ last'.notified => last'.out[2].to = uid /\ ~last'.out[2].invite]_vars

\* a follow-up of the student has been approved and published while the
\* student could not be told
C27_Witness ==
    /\ last.op = "_approve"
    /\ "notified" \in DOMAIN last
    /\ ~last.notified
    /\ Len(last.out) = 1
    /\ Len(posts) = 2
    /\ posts[2].reply_to = 1
    /\ Len(reviews) = 2
    /\ Student \in members
    /\ TokenKey(posts[2].deep_link) \in DOMAIN contexts
    /\ adminMsgs[<<Student, posts[2].rev_id>>] = "none"

\* C28: a pending entry is read once: when the moderator's approve button
\* is pressed for a review that _approve has already published, the answer
\* is "Pending data not found" and nothing is posted, so that no two posts
\* of the channel come from the same draft.
C28_PendingEntryReadOnce ==
    [][(/\ last'.op = "_approve"
        /\ update'.data.action = "app"
        /\ \E i \in 1..Len(posts) : posts[i].rev_id = update'.data.rev_id)
       => /\ posts' = posts
          /\ contexts' = contexts
          /\ reviews' = reviews
          /\ last'.out = <<Msg(ADMIN_ID, "Pending data not found")>>]_vars

\* a record with room for one more admission at the given time
FreeAt(timestamps, time) == Len(InWindow(timestamps, time)) < MAX_REVIEWS_PER_HOUR

\* C29: a rate_limit_ok call that returns False leaves the user's record
\* exactly as the call read it, nothing appended and nothing pruned, so the
\* times from now on at which the user would be admitted are the same after
\* the call as before it.
C29_DenialLeavesRecord ==
    [][(/\ last'.op = "rate_limit_ok"
        /\ clock' = clock
        /\ ~last'.ok)
       => LET u == last'.uid
          IN  /\ u \in DOMAIN ratelimits'
              /\ ratelimits'[u] = last'.read
              /\ Len(ratelimits'[u]) = Len(find_timestamps(ratelimits, u))
              /\ \A time \in clock..(clock + HOUR) :
                    FreeAt(ratelimits'[u], time) <=> FreeAt(find_timestamps(ratelimits, u), time)
              /\ \A v \in DOMAIN ratelimits : ratelimits'[v] = ratelimits[v]]_vars

\* a call has been denied at a time when the oldest of the user's five
\* timestamps is about to leave the window
C29_Witness ==
    /\ last.op = "rate_limit_ok"
    /\ ~last.ok
    /\ last.now = clock
    /\ Len(ratelimits[last.uid]) = MAX_REVIEWS_PER_HOUR
    /\ ratelimits[last.uid] = last.read
    /\ ratelimits[last.uid][1] < clock
    /\ ~FreeAt(ratelimits[last.uid], clock)
    /\ FreeAt(ratelimits[last.uid], clock + 1)

\* C30: Session.delete(idx) on the manage menu's "ddel|idx": with idx outside
\* 0..len(drafts)-1 it returns False and the committed list and the draft
\* in progress stay as they are; with idx inside it returns True, the list
\* loses the draft at that position and no other, the drafts before it and
\* behind it keep their order, and the draft in progress stays as it is.
C30_DeleteChecksBounds ==
    [][(/\ last'.op = "cb_manage_drafts"
        /\ update'.data.cmd = "ddel"
        /\ update'.from \in DOMAIN sessions)
       => LET u == update'.from
              idx == update'.data.idx
              ds == sessions[u].drafts
              r == delete(sessions[u], idx)
          IN  /\ sessions'[u].draft = sessions[u].draft
              /\ r.sess = sessions'[u]
              /\ IF idx >= 0 /\ idx <= Len(ds) - 1
                 THEN /\ r.ok
                      /\ sessions'[u].drafts =
                            [j \in 1..(Len(ds) - 1) |->
                                IF j <= idx THEN ds[j] ELSE ds[j + 1]]
                 ELSE /\ ~r.ok
                      /\ sessions'[u].drafts = ds]_vars

\* the second of three committed drafts has been deleted: the first and the
\* third remain, in that order
C30_Witness ==
    /\ last.op = "cb_manage_drafts"
    /\ update.data.cmd = "ddel"
    /\ update.data.idx = 1
    /\ conv[Student] = ST_MANAGE
    /\ Student \in DOMAIN sessions
    /\ Len(sessions[Student].drafts) = 2
    /\ sessions[Student].drafts[1].id = 2
    /\ sessions[Student].drafts[2].id = 4

\* C31: Session.pop_for_edit(idx) on the manage menu's "dedit|idx": with idx
\* outside 0..len(drafts)-1 it returns nothing, the committed list and the
\* draft in progress stay as they are and the conversation stays in
\* ST_MANAGE; with idx inside, the draft at that position leaves the list
\* and becomes the draft in progress.
C31_PopForEditChecksBounds ==
    [][(/\ last'.op = "cb_manage_drafts"
        /\ update'.data.cmd = "dedit"
        /\ conv[update'.from] = ST_MANAGE
        /\ update'.from \in DOMAIN sessions)
       => LET u == update'.from
              idx == update'.data.idx
              ds == sessions[u].drafts
              r == pop_for_edit(sessions[u], idx)
          IN  IF idx >= 0 /\ idx <= Len(ds) - 1
              THEN /\ r.ok
                   /\ sessions'[u].draft = <<ds[idx + 1]>>
                   /\ Len(sessions'[u].drafts) = Len(ds) - 1
                   /\ \A j \in 1..(Len(ds) - 1) :
                         sessions'[u].drafts[j] = IF j <= idx THEN ds[j] ELSE ds[j + 1]
              ELSE /\ ~r.ok
                   /\ sessions'[u].drafts = ds
                   /\ sessions'[u].draft = sessions[u].draft
                   /\ conv'[u] = ST_MANAGE
                   /\ last'.out = <<>>]_vars

\* the edit button of a third draft has been pressed on a list of two: both
\* drafts are still committed and the manage menu is still open
C31_Witness ==
    /\ last.op = "cb_manage_drafts"
    /\ update.data.cmd = "dedit"
    /\ update.data.idx = 2
    /\ conv[Student] = ST_MANAGE
    /\ Student \in DOMAIN sessions
    /\ Len(sessions[Student].drafts) = 2
    /\ sessions[Student].draft = <<>>
    /\ last.out = <<>>

\* C32: a context entry is never changed after it was stored: in every step
\* each key of the store stays in the store with the data it had, so every
\* write of a submission (pending_<draft id>) and of an approval (a fresh
\* token, also when one review is approved twice) goes to a key that was
\* not there before.
C32_ContextEntriesImmutable ==
    [][\A k \in DOMAIN contexts :
          k \in DOMAIN contexts' /\ contexts'[k] = contexts[k]]_vars

\* a follow-up has been submitted and approved after the first review: the
\* store holds both pending entries and both resume entries
C32_Witness ==
    /\ last.op = "_approve"
    /\ "token" \in DOMAIN last
    /\ last.token > FirstToken
    /\ TokenKey(last.token) \in DOMAIN contexts
    /\ TokenKey(FirstToken) \in DOMAIN contexts
    /\ PendingKey(1) \in DOMAIN contexts
    /\ PendingKey(last.rev_id) \in DOMAIN contexts
    /\ last.rev_id # 1
    /\ contexts[PendingKey(last.rev_id)].is_additional
    /\ ~contexts[PendingKey(1)].is_additional

\* C33: no pending entry is stored for a user who is banned when the
\* submission runs, a user banned by the moderator in the middle of a
\* conversation included.
C33_NoPendingForBanned ==
    [][\A k \in DOMAIN contexts' \ DOMAIN contexts :
          k.prefix = "pending_" => contexts'[k].user_id \notin banned]_vars

\* C34: once the moderator has rejected a draft, no later step publishes it:
\* no step adds a channel post (and with it a resume entry and a review) for
\* a draft whose id is among the rejected ones.
C34_RejectedNeverPublished ==
    [][\A i \in 1..Len(posts') :
          i > Len(posts) => posts'[i].rev_id \notin rejected]_vars

\* C35: the moderator is never banned: ADMIN_ID is in the banned set in no
\* reachable state, whether a ban comes from the moderator's ban button or
\* from the strike ceiling of handler_content.
C35_ModeratorNeverBanned == ADMIN_ID \notin banned

\* C36: every pending entry a step stores holds a rating from 1 to 5 and a
\* body that is at least MIN_REVIEW_LEN characters long once trimmed and in
\* which the content filter finds no forbidden word, whichever way the draft
\* came to submission: first entry, edit of a committed draft, or follow-up
\* resumed from a deep link.
C36_PendingEntriesAreValid ==
    [][\A k \in DOMAIN contexts' :
          /\ k.prefix = "pending_"
          /\ (k \notin DOMAIN contexts \/ contexts'[k] # contexts[k])
          => /\ contexts'[k].rating \in 1..5
             /\ Len(Strip(contexts'[k].content)) >= MIN_REVIEW_LEN
             /\ ~contains_profanity(contexts'[k].content)]_vars

\* a follow-up and a review of the menu path are pending, the latter with
\* the body that is 29 characters once trimmed refused on the way and a
\* forbidden word counted as a strike
C36_Witness ==
    /\ \E k \in DOMAIN contexts :
          /\ k.prefix = "pending_" /\ k.id > 1
          /\ contexts[k].is_additional
          /\ contexts[k].content = Strip(BodyOk)
    /\ \E k \in DOMAIN contexts :
          /\ k.prefix = "pending_" /\ k.id > 1
          /\ ~contexts[k].is_additional
    /\ Get(violations, Student, 0) >= 1
    /\ last.op \in {"handler_batch", "handler_content", "cb_manage_drafts"}
    /\ \E m \in 1..Len(last.out) : last.out[m].text = "SUCCESS_SUBMITTED"

\* C37: whenever a user's conversation is in ST_STREAM, ST_YEAR, ST_SUBJECT,
\* ST_TEACHER, ST_RATING or ST_CONTENT, the user's session exists and has an
\* active draft.
C37_DraftingStatesHaveDraft ==
    \A u \in Users :
        conv[u] \in {ST_STREAM, ST_YEAR, ST_SUBJECT, ST_TEACHER, ST_RATING, ST_CONTENT}
            => u \in DOMAIN sessions /\ sessions[u].draft # <<>>

\* C38: in every session the active draft, if there is one, is not among the
\* committed drafts, and no draft id occurs twice among them; commit_draft
\* puts the active draft at the end of the committed list and leaves no
\* active draft, and changes nothing when there is no active draft.
C38_CommittedListDisjoint ==
    \A u \in DOMAIN sessions :
        LET s == sessions[u]
            c == commit_draft(s)
        IN  /\ \A i, j \in 1..Len(s.drafts) : i # j => s.drafts[i].id # s.drafts[j].id
            /\ s.draft # <<>> => \A i \in 1..Len(s.drafts) : s.drafts[i].id # s.draft[1].id
            /\ IF s.draft # <<>>
               THEN /\ c.drafts = s.drafts \o s.draft
                    /\ c.draft = <<>>
                    /\ c.subject_page = s.subject_page
                    /\ c.current_subjects = s.current_subjects
               ELSE c = s

\* handler_content has committed a draft taken back for editing: it now
\* stands last, behind a draft created after it
C38_Witness ==
    /\ last.op = "handler_content"
    /\ Student \in DOMAIN sessions
    /\ sessions[Student].draft = <<>>
    /\ Len(sessions[Student].drafts) = 2
    /\ sessions[Student].drafts[1].id > sessions[Student].drafts[2].id

\* C39: when the post to the channel fails during _approve, the approval
\* stops with nothing stored: no resume entry, no review, no new approved
\* member, no post, and the submitter is not told of an approval; the
\* moderator's message keeps its buttons.
C39_FailedPostStoresNothing ==
    [][last'.op = "_approve" /\ last'.out = <<Msg(ADMIN_ID, "Channel post failed")>>
          => /\ contexts' = contexts
             /\ reviews' = reviews
             /\ members' = members
             /\ posts' = posts
             /\ adminMsgs' = adminMsgs
             /\ nextTok' = nextTok
             /\ \A m \in 1..Len(last'.out) : last'.out[m].text # "approved"]_vars

\* the Approve button of a pending review was pressed and the channel post
\* failed: the entry is still pending and nothing of it is published
C39_Witness ==
    /\ last.op = "_approve"
    /\ last.out = <<Msg(ADMIN_ID, "Channel post failed")>>
    /\ update.data.action = "app"
    /\ PendingKey(update.data.rev_id) \in DOMAIN contexts
    /\ \A i \in 1..Len(posts) : posts[i].rev_id # update.data.rev_id
    /\ adminMsgs[<<update.data.uid, update.data.rev_id>>] = "admin"

\* C40: a start token never loads a pending entry: no cmd_start step whose
\* argument names a key of the form pending_<draft id> seeds a follow-up
\* draft and moves the conversation to ST_RATING.
C40_StartNeverLoadsPending ==
    [][/\ last'.op = "cmd_start"
       /\ update'.data.arg # <<>>
       /\ update'.data.arg[1].prefix = "pending_"
       => /\ conv'[update'.from] = END
          /\ sessions'[update'.from].draft = <<>>]_vars

====
